---- MODULE Spec2Model ----
(***************************************************************************)
(* Model of clisten's playback control subsystem: the playback Queue       *)
(* (src/player/queue.rs), the mpv supervisor MpvPlayer (src/player/mod.rs, *)
(* src/player/ipc.rs) and the App handlers that drive them                 *)
(* (src/app/actions.rs, src/app/playback.rs).                              *)
(*                                                                         *)
(* Rust's Option<T> is a sequence of length 0 (None) or 1 (Some(x)).       *)
(* Vec indices stay 0-based as in the source; items[i] is items[i + 1]     *)
(* of the TLA+ sequence.                                                   *)
(***************************************************************************)
EXTENDS Integers, Sequences, FiniteSets, TLC

VARIABLES
    queue,      \* Queue { items, current_index }                (queue.rs:16-19)
    last,       \* the Queue method called last: [op, arg, ret]
    child,      \* MpvPlayer.child: the guarded Option<Child>    (mod.rs:18)
    lock,       \* holder of the tokio Mutex around child
    procs,      \* every mpv process spawned so far, by pid
    sock,       \* the socket file: None, or Some(pid that bound it)
    sup,        \* the supervisor's position inside play()/stop()
    mon,        \* position of the exit monitor started by each play()
    emitted,    \* Actions sent on action_tx by the player side, in order
    np_current, \* NowPlaying.current_item
    playing,    \* URL played by the process the App's player holds
    handled,    \* the Action handle_action ran last, with its effects
    sent,       \* Actions the App sent on action_tx while handling it
    discovery_items, \* DiscoveryList.all_items / items (no filter set)
    junk,       \* the last call of is_junk_metadata: [val, url, ret]
    obs,        \* one metadata observer task: url, held metadata, events sent
    poller,     \* one position poller task: position, events sent
    reaper,     \* kill_orphaned_mpv of one starting instance and the temp dir
    volume,     \* the player's volume and the last set_volume call
    sess,       \* the event loop fed by the player: events seen, ghosts
    controls,   \* PlayControls.queue_pos and queue_len         (play_controls.rs)
    search      \* App.search_id, the list's items and loading flag, search tasks

queueVars  == <<queue, last>>
playerVars == <<child, lock, procs, sock, sup, mon, emitted>>
appVars    == <<np_current, playing, handled, sent, discovery_items>>
ipcVars    == <<junk, obs, poller, reaper, volume>>
uiVars     == <<sess, controls, search>>
vars       == <<queue, last, child, lock, procs, sock, sup, mon, emitted,
                np_current, playing, handled, sent, discovery_items,
                junk, obs, poller, reaper, volume, sess, controls, search>>

----------------------------------------------------------------------------
(* Bounds *)

\* Longest queue the operations build.
MaxLen == 3
\* Number of play() calls that reach the spawn.
MaxPlays == 2

----------------------------------------------------------------------------
(* Option<T> *)

None == <<>>
Some(x) == <<x>>
IsSome(o) == o # <<>>
Unwrap(o) == o[1]

----------------------------------------------------------------------------
(* DiscoveryItem and QueueItem *)

NtsLiveChannel(ch, name, gs) ==
    [kind |-> "NtsLiveChannel", channel |-> ch, show_name |-> name, genres |-> gs]

NtsEpisode(n, audio) ==
    [kind |-> "NtsEpisode", name |-> n, audio_url |-> audio]

NtsShow(n) ==
    [kind |-> "NtsShow", name |-> n]

DirectUrl(u) ==
    [kind |-> "DirectUrl", url |-> u]

NtsGenre(n) ==
    [kind |-> "NtsGenre", name |-> n]

\* DiscoveryItem::playback_url: the URL handed to mpv, None when not playable.
playback_url(item) ==
    CASE item.kind = "NtsLiveChannel" ->
            IF item.channel = 1 THEN Some("https://stream-relay-geo.ntslive.net/stream")
            ELSE IF item.channel = 2 THEN Some("https://stream-relay-geo.ntslive.net/stream2")
            ELSE None
      [] item.kind = "NtsEpisode" -> item.audio_url
      [] item.kind = "NtsShow"    -> None
      [] item.kind = "DirectUrl"  -> Some(item.url)
      [] item.kind = "NtsGenre"   -> None

\* Option<String>::unwrap_or_default
unwrap_or_default(o) == IF IsSome(o) THEN Unwrap(o) ELSE ""

QueueItem(it, u, meta) == [item |-> it, url |-> u, stream_metadata |-> meta]

\* make_live_queue_item / make_queue_item of the tests: an item as callers build it.
MakeQueueItem(it) == QueueItem(it, unwrap_or_default(playback_url(it)), None)

Live1A == NtsLiveChannel(1, "Show A", <<"Jazz">>)
Live1B == NtsLiveChannel(1, "Show B", <<"Techno">>)
Live2A == NtsLiveChannel(2, "Show A", <<"Jazz">>)
Episode1 == NtsEpisode("track1", Some("http://track1"))
Episode2 == NtsEpisode("track2", Some("http://track2"))
EpisodeNoAudio == NtsEpisode("track0", None)
Show1 == NtsShow("show1")

\* StreamMetadata { station_name, title, artist, album }
StreamMetadata(st, t, ar, al) ==
    [station_name |-> st, title |-> t, artist |-> ar, album |-> al]

Meta1 == StreamMetadata(None, Some("Song"), None, None)

\* StreamMetadata::default() and StreamMetadata::is_empty()
StreamMetadata_default == StreamMetadata(None, None, None, None)

StreamMetadata_is_empty(m) ==
    m.station_name = None /\ m.title = None /\ m.artist = None /\ m.album = None

\* A line read from the observer's connection: not JSON ("garbage"), or a
\* JSON object with its "event", "id" and "data" members (None when
\* missing or of the wrong type for event and id; data keeps its type).
Line(kind, event, id, t, v) ==
    [kind |-> kind, event |-> event, id |-> id, data |-> [t |-> t, v |-> v]]

NoLine == Line("none", None, None, "null", "")

\* The result of one send_command: Err, or Ok(response) with the response
\* not JSON ("garbage") or a JSON object whose "data" member is a number,
\* a string, or null / missing.
Response(ok, kind, t, v) ==
    [ok |-> ok, kind |-> kind, data |-> [t |-> t, v |-> v]]

NoResponse == Response(TRUE, "none", "null", 0)

----------------------------------------------------------------------------
(* Queue (src/player/queue.rs) *)

\* Vec::insert(pos, x), Vec::remove(index) with 0-based positions.
VecInsert(s, pos, x) == SubSeq(s, 1, pos) \o <<x>> \o SubSeq(s, pos + 1, Len(s))
VecRemove(s, index) == SubSeq(s, 1, index) \o SubSeq(s, index + 2, Len(s))
\* slice::get(i)
VecGet(s, i) == IF i >= 0 /\ i < Len(s) THEN Some(s[i + 1]) ELSE None

Queue_new == [items |-> <<>>, current_index |-> None]

\* add that moves the cursor to the item it appended.
Queue_add_CursorFollows(q, item) ==
    [items |-> Append(q.items, item),
     current_index |-> Some(Len(q.items))]

Queue_add(q, item) ==
    [items |-> Append(q.items, item),
     current_index |-> IF q.current_index = None THEN Some(0) ELSE q.current_index]

\* add_next that inserts at the cursor instead of after it.
Queue_add_next_AtCursor(q, item) ==
    LET pos == IF q.current_index = None THEN 0 ELSE Unwrap(q.current_index)
    IN [items |-> VecInsert(q.items, pos, item),
        current_index |-> IF q.current_index = None THEN Some(0) ELSE q.current_index]

Queue_add_next(q, item) ==
    LET pos == IF q.current_index = None THEN 0 ELSE Unwrap(q.current_index) + 1
    IN [items |-> VecInsert(q.items, pos, item),
        current_index |-> IF q.current_index = None THEN Some(0) ELSE q.current_index]

\* remove that forgets to reset the cursor when the queue becomes empty.
Queue_remove_KeepsCursor(q, index) ==
    IF index < Len(q.items)
    THEN [items |-> VecRemove(q.items, index),
          current_index |->
              IF IsSome(q.current_index)
                 /\ index <= Unwrap(q.current_index)
                 /\ Unwrap(q.current_index) > 0
              THEN Some(Unwrap(q.current_index) - 1)
              ELSE q.current_index]
    ELSE q

\* remove that shifts the cursor only for an index strictly before it.
Queue_remove_StrictlyBefore(q, index) ==
    IF index < Len(q.items)
    THEN LET rest == VecRemove(q.items, index)
         IN [items |-> rest,
             current_index |->
                 IF rest = <<>> THEN None
                 ELSE IF IsSome(q.current_index)
                         /\ index < Unwrap(q.current_index)
                         /\ Unwrap(q.current_index) > 0
                      THEN Some(Unwrap(q.current_index) - 1)
                      ELSE q.current_index]
    ELSE q

Queue_remove(q, index) ==
    IF index < Len(q.items)
    THEN LET rest == VecRemove(q.items, index)
         IN [items |-> rest,
             current_index |->
                 IF rest = <<>> THEN None
                 ELSE IF IsSome(q.current_index)
                         /\ index <= Unwrap(q.current_index)
                         /\ Unwrap(q.current_index) > 0
                      THEN Some(Unwrap(q.current_index) - 1)
                      ELSE q.current_index]
    ELSE q

Queue_clear(q) == [items |-> <<>>, current_index |-> None]

Queue_current(q) ==
    IF IsSome(q.current_index) THEN VecGet(q.items, Unwrap(q.current_index)) ELSE None

\* advance / prev / play_at return the queue after the call and the item returned.
Queue_advance(q) ==
    IF IsSome(q.current_index) /\ Unwrap(q.current_index) + 1 < Len(q.items)
    THEN [q |-> [q EXCEPT !.current_index = Some(Unwrap(q.current_index) + 1)],
          ret |-> VecGet(q.items, Unwrap(q.current_index) + 1)]
    ELSE [q |-> q, ret |-> None]

\* prev that returns the item it moved away from.
Queue_prev_ReturnsOld(q) ==
    IF IsSome(q.current_index) /\ Unwrap(q.current_index) > 0
    THEN [q |-> [q EXCEPT !.current_index = Some(Unwrap(q.current_index) - 1)],
          ret |-> VecGet(q.items, Unwrap(q.current_index))]
    ELSE [q |-> q, ret |-> None]

Queue_prev(q) ==
    IF IsSome(q.current_index) /\ Unwrap(q.current_index) > 0
    THEN [q |-> [q EXCEPT !.current_index = Some(Unwrap(q.current_index) - 1)],
          ret |-> VecGet(q.items, Unwrap(q.current_index) - 1)]
    ELSE [q |-> q, ret |-> None]

\* play_at without the range check.
Queue_play_at_Unchecked(q, index) ==
    [q |-> [q EXCEPT !.current_index = Some(index)],
     ret |-> VecGet(q.items, index)]

\* play_at that clamps an out-of-range index to the last item.
Queue_play_at_Clamps(q, index) ==
    IF q.items # <<>>
    THEN LET i == IF index < Len(q.items) THEN index ELSE Len(q.items) - 1
         IN [q |-> [q EXCEPT !.current_index = Some(i)],
             ret |-> VecGet(q.items, i)]
    ELSE [q |-> q, ret |-> None]

Queue_play_at(q, index) ==
    IF index < Len(q.items)
    THEN [q |-> [q EXCEPT !.current_index = Some(index)],
          ret |-> VecGet(q.items, index)]
    ELSE [q |-> q, ret |-> None]

\* The inner loop of update_live_channels for one queue entry: the fresh
\* entries are applied in order, each compared with the entry as updated so far.
\* Returns the entry and whether it was written.
RECURSIVE UpdateOne(_, _, _, _)
UpdateOne(it, live, k, changed) ==
    IF k > Len(live) THEN [item |-> it, changed |-> changed]
    ELSE LET fresh == live[k]
         IN IF it.kind = "NtsLiveChannel" /\ fresh.kind = "NtsLiveChannel"
               /\ fresh.channel = it.channel
               /\ (it.show_name # fresh.show_name \/ it.genres # fresh.genres)
            THEN UpdateOne([it EXCEPT !.show_name = fresh.show_name,
                                      !.genres = fresh.genres],
                           live, k + 1, TRUE)
            ELSE UpdateOne(it, live, k + 1, changed)

Queue_update_live_channels_ResetsCursor(q, live) ==
    LET upd(i) == UpdateOne(q.items[i].item, live, 1, FALSE)
    IN [q |-> [items |-> [i \in 1..Len(q.items) |->
                             [q.items[i] EXCEPT !.item = upd(i).item]],
               current_index |-> IF Len(q.items) > 0 THEN Some(0) ELSE None],
        ret |-> \E i \in 1..Len(q.items) : upd(i).changed]

Queue_update_live_channels(q, live) ==
    LET upd(i) == UpdateOne(q.items[i].item, live, 1, FALSE)
    IN [q |-> [q EXCEPT !.items =
                  [i \in 1..Len(q.items) |-> [q.items[i] EXCEPT !.item = upd(i).item]]],
        ret |-> \E i \in 1..Len(q.items) : upd(i).changed]

\* find_live_channel: linear scan for the first live-channel entry with
\* channel number n; the index (0-based) or None.
Queue_find_live_channel_AnyKind(q, n) ==
    IF Len(q.items) > 0 THEN Some(0) ELSE None

Queue_find_live_channel(q, n) ==
    LET hits == {i \in 1..Len(q.items) :
                    /\ q.items[i].item.kind = "NtsLiveChannel"
                    /\ q.items[i].item.channel = n}
    IN IF hits = {} THEN None
       ELSE Some((CHOOSE i \in hits : \A j \in hits : i <= j) - 1)

Queue_set_current_stream_metadata_First(q, metadata) ==
    IF IsSome(q.current_index) /\ Unwrap(q.current_index) < Len(q.items)
    THEN [q EXCEPT !.items[1].stream_metadata = Some(metadata)]
    ELSE q

Queue_set_current_stream_metadata(q, metadata) ==
    IF IsSome(q.current_index) /\ Unwrap(q.current_index) < Len(q.items)
    THEN [q EXCEPT !.items[Unwrap(q.current_index) + 1].stream_metadata = Some(metadata)]
    ELSE q

----------------------------------------------------------------------------
(* Initial state *)

InitQueue ==
    /\ queue = Queue_new
    /\ last = [op |-> "new", arg |-> None, ret |-> None]

InitPlayer ==
    /\ child = None
    /\ lock = None
    /\ procs = <<>>
    /\ sock = None
    /\ sup = [pc |-> "idle", call |-> "none", url |-> "", result |-> "none"]
    /\ mon = <<>>
    /\ emitted = <<>>

InitApp ==
    /\ np_current = None
    /\ playing = None
    /\ handled = [action |-> "none", item |-> None, played |-> None,
                  spawn |-> "none", result |-> "Ok"]
    /\ sent = <<>>
    /\ discovery_items = <<>>

InitIpc ==
    /\ junk = [called |-> FALSE, pre |-> "", core |-> "", post |-> "",
               url |-> "", ret |-> FALSE]
    /\ obs = [pc |-> "unstarted", url |-> "", meta |-> StreamMetadata_default,
              out |-> <<>>, lines |-> 0, last |-> NoLine]
    /\ poller = [pc |-> "unstarted", attempts |-> 0, polls |-> 0, out |-> <<>>,
                 last |-> NoResponse]
    /\ reaper = [pc |-> "unstarted", own |-> 0, live |-> {}, listed |-> FALSE,
                 todo |-> {},
                 before |-> <<>>, tmp |-> <<>>, quit |-> {}, killed |-> {}]
    /\ volume = [pc |-> "unstarted", mpv |-> 0, calls |-> 0, sent |-> <<>>,
                 last |-> [delta |-> 0, read |-> NoResponse, issued |-> FALSE,
                           target |-> 0, result |-> "none"]]

InitUi ==
    /\ sess = [seen |-> 0, replaced |-> {}, stopped |-> {}, observed |-> {}]
    /\ controls = [queue_pos |-> None, queue_len |-> 0]
    /\ search = [id |-> 0, active_sub |-> "Live", loading |-> FALSE,
                 viewing_genre_results |-> FALSE, viewing_query_results |-> FALSE,
                 tasks |-> <<>>, loads |-> <<>>, switches |-> 0, stale |-> {}]

Init == InitQueue /\ InitPlayer /\ InitApp /\ InitIpc /\ InitUi

----------------------------------------------------------------------------
(* The Queue driven directly, as the unit tests of tests/queue_and_app.rs do *)

\* Entries handed to add / add_next.
QueueItemInputs ==
    {MakeQueueItem(Live1A), MakeQueueItem(Live1B), MakeQueueItem(Live2A),
     MakeQueueItem(Episode1)}

\* Index arguments, in range and out of range.
IndexInputs == 0..MaxLen

\* Fresh live listings handed to update_live_channels.
FreshInputs == {<<Live1B>>, <<Live1A, Live2A>>, <<Live1B, Live1A>>}

\* Channel numbers handed to find_live_channel; no input entry has channel 3.
ChannelInputs == {1, 2, 3}

Called(o, a, r) == last' = [op |-> o, arg |-> a, ret |-> r]

Add(item) ==
    /\ Len(queue.items) < MaxLen
    /\ queue' = Queue_add(queue, item)
    /\ Called("add", Some(item), None)
    /\ UNCHANGED <<playerVars, appVars, ipcVars, uiVars>>

AddNext(item) ==
    /\ Len(queue.items) < MaxLen
    /\ queue' = Queue_add_next(queue, item)
    /\ Called("add_next", Some(item), None)
    /\ UNCHANGED <<playerVars, appVars, ipcVars, uiVars>>

Remove(index) ==
    /\ queue' = Queue_remove(queue, index)
    /\ Called("remove", Some(index), None)
    /\ UNCHANGED <<playerVars, appVars, ipcVars, uiVars>>

Clear ==
    /\ queue' = Queue_clear(queue)
    /\ Called("clear", None, None)
    /\ UNCHANGED <<playerVars, appVars, ipcVars, uiVars>>

Advance ==
    /\ queue' = Queue_advance(queue).q
    /\ Called("advance", None, Queue_advance(queue).ret)
    /\ UNCHANGED <<playerVars, appVars, ipcVars, uiVars>>

Prev ==
    /\ queue' = Queue_prev(queue).q
    /\ Called("prev", None, Queue_prev(queue).ret)
    /\ UNCHANGED <<playerVars, appVars, ipcVars, uiVars>>

PlayAt(index) ==
    /\ queue' = Queue_play_at(queue, index).q
    /\ Called("play_at", Some(index), Queue_play_at(queue, index).ret)
    /\ UNCHANGED <<playerVars, appVars, ipcVars, uiVars>>

UpdateLiveChannels(live) ==
    /\ queue' = Queue_update_live_channels(queue, live).q
    /\ Called("update_live_channels", Some(live),
              Some(Queue_update_live_channels(queue, live).ret))
    /\ UNCHANGED <<playerVars, appVars, ipcVars, uiVars>>

FindLiveChannel(n) ==
    /\ queue' = queue
    /\ Called("find_live_channel", Some(n), Queue_find_live_channel(queue, n))
    /\ UNCHANGED <<playerVars, appVars, ipcVars, uiVars>>

SetCurrentStreamMetadata(metadata) ==
    /\ queue' = Queue_set_current_stream_metadata(queue, metadata)
    /\ Called("set_current_stream_metadata", Some(metadata), None)
    /\ UNCHANGED <<playerVars, appVars, ipcVars, uiVars>>

NextQueue ==
    \/ \E item \in QueueItemInputs : Add(item)
    \/ \E item \in QueueItemInputs : AddNext(item)
    \/ \E index \in IndexInputs : Remove(index)
    \/ Clear
    \/ Advance
    \/ Prev
    \/ \E index \in IndexInputs : PlayAt(index)
    \/ \E live \in FreshInputs : UpdateLiveChannels(live)
    \/ \E n \in ChannelInputs : FindLiveChannel(n)
    \/ SetCurrentStreamMetadata(Meta1)

SpecQueue == Init /\ [][NextQueue]_vars

----------------------------------------------------------------------------
(* Properties of the Queue, checked under SpecQueue *)

\* Length of the queue and the cursor as a number (-1 when absent).
QLen == Len(queue.items)
Cursor == IF IsSome(queue.current_index) THEN Unwrap(queue.current_index) ELSE -1

\* C1: after any sequence of Queue operations starting from Queue::new(),
\* current_index is None if and only if items is empty.
C1_CursorNoneIffEmpty ==
    (queue.current_index = None) <=> (queue.items = <<>>)

\* The last item was removed and the cursor went with it.
C1_Witness ==
    /\ last.op = "remove"
    /\ queue.items = <<>>
    /\ queue.current_index = None

\* C2: whatever index arguments the operations were called with, a present
\* current_index is strictly less than items.len(), and current() returns an
\* item whenever the queue is non-empty.
C2_CursorInRange ==
    /\ IsSome(queue.current_index) => Unwrap(queue.current_index) < QLen
    /\ queue.items # <<>> => IsSome(Queue_current(queue))

\* play_at was called with an index at or past the end of a non-empty queue.
C2_Witness ==
    /\ last.op = "play_at"
    /\ QLen >= 1
    /\ Unwrap(last.arg) >= QLen
    /\ last.ret = None

\* C6: add appends the item at the end of items; the first add on an empty
\* queue sets current_index to Some(0); every add on a non-empty queue leaves
\* current_index unchanged, whatever its value.
C6_AddAppends ==
    [][last'.op = "add" =>
          /\ queue'.items = queue.items \o <<Unwrap(last'.arg)>>
          /\ queue.items = <<>> => queue'.current_index = Some(0)
          /\ queue.items # <<>> => queue'.current_index = queue.current_index]_vars

\* add on a queue of two items whose cursor is on the second.
C6_Witness ==
    /\ last.op = "add"
    /\ QLen = 3
    /\ queue.items[3] = Unwrap(last.arg)
    /\ Cursor = 1

\* C7: add_next on an empty queue gives the state add gives (one item, cursor
\* Some(0)); on a non-empty queue it inserts at position current_index + 1,
\* shifts the later items by one and leaves the cursor and the current item
\* unchanged.
C7_AddNextInserts ==
    [][last'.op = "add_next" =>
          LET it == Unwrap(last'.arg)
              n  == Len(queue.items)
          IN IF queue.items = <<>>
             THEN /\ queue' = [items |-> <<it>>, current_index |-> Some(0)]
                  /\ queue' = Queue_add(queue, it)
             ELSE LET c == Unwrap(queue.current_index)
                  IN /\ Len(queue'.items) = n + 1
                     /\ queue'.items[c + 2] = it
                     /\ \A k \in 1..(c + 1) : queue'.items[k] = queue.items[k]
                     /\ \A k \in (c + 2)..n : queue'.items[k + 1] = queue.items[k]
                     /\ queue'.current_index = queue.current_index
                     /\ Queue_current(queue') = Queue_current(queue)]_vars

\* add_next between the current item and a different item that followed it.
C7_Witness ==
    /\ last.op = "add_next"
    /\ QLen = 3
    /\ Cursor = 0
    /\ queue.items[2] = Unwrap(last.arg)
    /\ queue.items[3] # queue.items[2]
    /\ queue.items[1] # queue.items[2]

\* C8: remove(i) with a valid i deletes exactly the item at i; if
\* i <= current_index and current_index > 0 the cursor decrements by exactly
\* one, so for i strictly before the cursor current() still returns the same
\* item; for i after the cursor the cursor is unchanged; removing the only
\* remaining item sets current_index to None; an out-of-range index changes
\* nothing.
C8_RemoveShiftsCursor ==
    [][last'.op = "remove" =>
          LET i == Unwrap(last'.arg)
              n == Len(queue.items)
              c == IF IsSome(queue.current_index) THEN Unwrap(queue.current_index) ELSE -1
          IN IF i < n
             THEN /\ Len(queue'.items) = n - 1
                  /\ \A k \in 1..i : queue'.items[k] = queue.items[k]
                  /\ \A k \in (i + 1)..(n - 1) : queue'.items[k] = queue.items[k + 1]
                  /\ n = 1 => queue'.current_index = None
                  /\ (i <= c /\ c > 0) => queue'.current_index = Some(c - 1)
                  /\ (i < c) => Queue_current(queue') = Queue_current(queue)
                  /\ (i > c /\ n > 1) => queue'.current_index = queue.current_index
             ELSE queue' = queue]_vars

\* remove(0) with the cursor on the third of three items: the cursor moved to 1.
C8_Witness ==
    /\ last.op = "remove"
    /\ last.arg = Some(0)
    /\ QLen = 2
    /\ Cursor = 1

\* The effect of advance and prev on the cursor and the returned item, and
\* the boundaries, as C9 states them.
AdvancePrevStep ==
    /\ last'.op = "advance" =>
          LET n == Len(queue.items)
              c == IF IsSome(queue.current_index) THEN Unwrap(queue.current_index) ELSE -1
          IN IF c >= 0 /\ c + 1 < n
             THEN /\ queue'.current_index = Some(c + 1)
                  /\ queue'.items = queue.items
                  /\ last'.ret = Some(queue.items[c + 2])
                  /\ last'.ret = Queue_current(queue')
             ELSE last'.ret = None /\ queue' = queue
    /\ last'.op = "prev" =>
          LET c == IF IsSome(queue.current_index) THEN Unwrap(queue.current_index) ELSE -1
          IN IF c > 0
             THEN /\ queue'.current_index = Some(c - 1)
                  /\ queue'.items = queue.items
                  /\ last'.ret = Some(queue.items[c])
                  /\ last'.ret = Queue_current(queue')
             ELSE last'.ret = None /\ queue' = queue

\* C9 as stated: the effect of advance and prev, and advance followed by prev
\* restores the cursor, from every queue.
C9_AdvanceThenPrevRestores ==
    [][/\ AdvancePrevStep
       /\ Queue_prev(Queue_advance(queue).q).q.current_index = queue.current_index]_vars

\* C9 amended: the effect of advance and prev, and an advance that returned an
\* item, followed by prev, restores the cursor and returns the item that was
\* current before.
C9_AdvancePrev ==
    [][/\ AdvancePrevStep
       /\ IsSome(Queue_advance(queue).ret) =>
             /\ Queue_prev(Queue_advance(queue).q).q = queue
             /\ Queue_prev(Queue_advance(queue).q).ret = Queue_current(queue)]_vars

\* advance moved the cursor from the first to the second of three items.
C9_Witness ==
    /\ last.op = "advance"
    /\ IsSome(last.ret)
    /\ QLen = 3
    /\ Cursor = 1
    /\ last.ret = Some(queue.items[2])

\* C10: play_at(index) sets current_index to index and returns that item when
\* index < len; for index >= len, also on an empty queue, it returns no item
\* and leaves current_index and items unchanged.
C10_PlayAt ==
    [][last'.op = "play_at" =>
          LET index == Unwrap(last'.arg)
          IN IF index < Len(queue.items)
             THEN /\ queue'.current_index = Some(index)
                  /\ queue'.items = queue.items
                  /\ last'.ret = Some(queue.items[index + 1])
             ELSE /\ last'.ret = None
                  /\ queue' = queue]_vars

\* play_at jumped from elsewhere to the last of three items.
C10_Witness ==
    /\ last.op = "play_at"
    /\ last.arg = Some(2)
    /\ QLen = 3
    /\ Cursor = 2
    /\ last.ret = Some(queue.items[3])

\* The queue entries keep their number and order across a step: same length,
\* and position by position the same url, variant and stream metadata slot
\* owner (show name and genres of a live channel may differ).
SameOrder ==
    /\ Len(queue'.items) = Len(queue.items)
    /\ \A i \in 1..Len(queue.items) :
          /\ queue'.items[i].url = queue.items[i].url
          /\ queue'.items[i].item.kind = queue.items[i].item.kind

\* C11: on a non-empty queue add, add_next, update_live_channels and
\* set_current_stream_metadata leave current_index as it was;
\* update_live_channels and set_current_stream_metadata keep the number and
\* order of the items; a present cursor moves to another index only in
\* advance, prev, play_at and remove.
C11_CursorFrame ==
    [][/\ (Len(queue.items) > 0
            /\ last'.op \in {"add", "add_next", "update_live_channels",
                             "set_current_stream_metadata"})
          => queue'.current_index = queue.current_index
       /\ last'.op \in {"update_live_channels", "set_current_stream_metadata"}
          => SameOrder
       /\ (IsSome(queue.current_index) /\ IsSome(queue'.current_index)
            /\ queue'.current_index # queue.current_index)
          => last'.op \in {"advance", "prev", "play_at", "remove"}]_vars

\* update_live_channels rewrote an entry while the cursor stood on the
\* second of three items.
C11_Witness ==
    /\ last.op = "update_live_channels"
    /\ last.ret = Some(TRUE)
    /\ QLen = 3
    /\ Cursor = 1

\* Show name and genres of a queue entry; <<>> for the other variants.
LiveFields(it) ==
    IF it.kind = "NtsLiveChannel" THEN <<it.show_name, it.genres>> ELSE <<>>

\* C12: update_live_channels(fresh) changes only show name and genres of
\* live-channel entries that differ from a fresh entry of the same channel,
\* leaves every other entry as it was, and returns true exactly when some
\* entry's show name or genres after the call differ from before the call.
C12_UpdateLiveChannels ==
    [][last'.op = "update_live_channels" =>
          LET live == Unwrap(last'.arg)
              differs(i) == LiveFields(queue'.items[i].item)
                               # LiveFields(queue.items[i].item)
          IN /\ SameOrder
             /\ queue'.current_index = queue.current_index
             /\ \A i \in 1..Len(queue.items) :
                   /\ queue'.items[i].stream_metadata = queue.items[i].stream_metadata
                   /\ queue.items[i].item.kind # "NtsLiveChannel"
                      => queue'.items[i] = queue.items[i]
                   /\ queue.items[i].item.kind = "NtsLiveChannel"
                      => queue'.items[i].item.channel = queue.items[i].item.channel
                   /\ differs(i) =>
                        \E k \in 1..Len(live) :
                            /\ live[k].channel = queue.items[i].item.channel
                            /\ LiveFields(live[k]) = LiveFields(queue'.items[i].item)
             /\ last'.ret = Some(\E i \in 1..Len(queue.items) : differs(i))]_vars

\* The live-channel entries of the queue with channel number n (0-based).
LiveMatches(n) ==
    {i \in 0..(QLen - 1) :
        /\ queue.items[i + 1].item.kind = "NtsLiveChannel"
        /\ queue.items[i + 1].item.channel = n}

\* C13: find_live_channel(n) returns the index of a live-channel entry with
\* channel number n, and none when the queue has no such entry; an entry of
\* another variant is never returned, and when the queue holds one entry for
\* the channel the returned index is that entry.
C13_FindLiveChannel ==
    last.op = "find_live_channel" =>
        LET n == Unwrap(last.arg)
        IN /\ LiveMatches(n) = {} => last.ret = None
           /\ LiveMatches(n) # {} =>
                 /\ IsSome(last.ret)
                 /\ Unwrap(last.ret) \in LiveMatches(n)
           /\ Cardinality(LiveMatches(n)) = 1
                 => LiveMatches(n) = {Unwrap(last.ret)}

\* find_live_channel(2) skipped an episode and a channel-1 entry.
C13_Witness ==
    /\ last.op = "find_live_channel"
    /\ last.arg = Some(2)
    /\ last.ret = Some(2)
    /\ QLen = 3
    /\ queue.items[1].item.kind = "NtsEpisode"
    /\ queue.items[2].item.kind = "NtsLiveChannel"
    /\ queue.items[2].item.channel = 1

\* C14: set_current_stream_metadata(meta) replaces the stream metadata of
\* exactly the item at current_index and leaves the other items' metadata,
\* the items themselves, their order and the cursor as they were; on an empty
\* queue it changes nothing.
C14_SetCurrentStreamMetadata ==
    [][last'.op = "set_current_stream_metadata" =>
          LET meta == Unwrap(last'.arg)
          IN /\ queue'.current_index = queue.current_index
             /\ Len(queue'.items) = Len(queue.items)
             /\ \A i \in 1..Len(queue.items) :
                   /\ queue'.items[i].item = queue.items[i].item
                   /\ queue'.items[i].url = queue.items[i].url
                   /\ queue'.items[i].stream_metadata =
                        IF queue.current_index = Some(i - 1)
                        THEN Some(meta)
                        ELSE queue.items[i].stream_metadata
             /\ Len(queue.items) = 0 => queue' = queue]_vars

\* The metadata went to the second of three items and only there.
C14_Witness ==
    /\ last.op = "set_current_stream_metadata"
    /\ QLen = 3
    /\ Cursor = 1
    /\ queue.items[2].stream_metadata = Some(Meta1)
    /\ queue.items[1].stream_metadata = None
    /\ queue.items[3].stream_metadata = None

----------------------------------------------------------------------------
(* MpvPlayer: play() and stop() of the supervisor, the mpv processes and   *)
(* the exit monitors (src/player/mod.rs, src/player/ipc.rs).  The steps of *)
(* play()/stop() are split at their await points; an exit monitor holds    *)
(* the mutex from its lock().await to the end of its loop body.            *)

\* Lock owner id of the supervisor; the exit monitor of process p uses p.
Supervisor == 0

\* URL handed to play(); the supervisor treats every URL alike.
UrlInputs == {"http://track1"}

Pids == 1..Len(procs)
Alive(p) == procs[p].state \in {"running", "quitting"}
AliveSet == {p \in Pids : Alive(p)}

\* Child::kill().await on the held child, if any (mod.rs:173-175).
KillHeld_QuitOnly(ps, ch) == ps

KillHeld(ps, ch) ==
    IF IsSome(ch) /\ ps[Unwrap(ch)].state \in {"running", "quitting"}
    THEN [ps EXCEPT ![Unwrap(ch)].state = "killed"]
    ELSE ps

\* The quit command of stop(): it reaches mpv only if the socket file is
\* there and the process that bound it still listens (mod.rs:169, 227-235).
SendQuit(ps, sk) ==
    IF IsSome(sk) /\ ps[Unwrap(sk)].state \in {"running", "quitting"}
    THEN [ps EXCEPT ![Unwrap(sk)].state = "quitting"]
    ELSE ps

\* A play(url) that announces the loading state only after stop() and spawn.
PlayCall_Silent(url) ==
    /\ sup.pc = "idle"
    /\ Len(procs) < MaxPlays
    /\ sup' = [pc |-> "quit", call |-> "play", url |-> url, result |-> "none"]
    /\ UNCHANGED <<child, lock, procs, sock, mon, emitted, queueVars, appVars, ipcVars, uiVars>>

\* play(url) is called: PlaybackLoading is sent first (mod.rs:37-41).
PlayCall(url) ==
    /\ sup.pc = "idle"
    /\ Len(procs) < MaxPlays
    /\ sup' = [pc |-> "quit", call |-> "play", url |-> url, result |-> "none"]
    /\ emitted' = Append(emitted, <<"PlaybackLoading">>)
    /\ UNCHANGED <<child, lock, procs, sock, mon, queueVars, appVars, ipcVars, uiVars>>

\* stop() is called on its own.
StopCall ==
    /\ sup.pc = "idle"
    /\ sup' = [pc |-> "quit", call |-> "stop", url |-> "", result |-> "none"]
    /\ UNCHANGED <<child, lock, procs, sock, mon, emitted, queueVars, appVars, ipcVars, uiVars>>

\* stop(): send quit, ignoring the outcome (mod.rs:169).
StopQuit ==
    /\ sup.pc = "quit"
    /\ procs' = SendQuit(procs, sock)
    /\ sup' = [sup EXCEPT !.pc = "unlink"]
    /\ UNCHANGED <<child, lock, sock, mon, emitted, queueVars, appVars, ipcVars, uiVars>>

\* stop(): remove the socket file (mod.rs:170).
StopUnlink ==
    /\ sup.pc = "unlink"
    /\ sock' = None
    /\ sup' = [sup EXCEPT !.pc = "lock"]
    /\ UNCHANGED <<child, lock, procs, mon, emitted, queueVars, appVars, ipcVars, uiVars>>

\* stop(): arc.lock().await (mod.rs:172).
StopLock ==
    /\ sup.pc = "lock"
    /\ lock = None
    /\ lock' = Some(Supervisor)
    /\ sup' = [sup EXCEPT !.pc = "kill"]
    /\ UNCHANGED <<child, procs, sock, mon, emitted, queueVars, appVars, ipcVars, uiVars>>

\* stop(): kill the held child, clear the handle, drop the guard
\* (mod.rs:173-178); play() goes on, stop() returns Ok.
StopKill ==
    /\ sup.pc = "kill"
    /\ procs' = KillHeld(procs, child)
    /\ child' = None
    /\ lock' = None
    /\ sup' = IF sup.call = "play"
              THEN [sup EXCEPT !.pc = "unlink_stale"]
              ELSE [sup EXCEPT !.pc = "idle", !.result = "Ok"]
    /\ UNCHANGED <<sock, mon, emitted, queueVars, appVars, ipcVars, uiVars>>

\* play(): remove a stale socket file (mod.rs:47).
PlayUnlinkStale ==
    /\ sup.pc = "unlink_stale"
    /\ sock' = None
    /\ sup' = [sup EXCEPT !.pc = "spawn"]
    /\ UNCHANGED <<child, lock, procs, mon, emitted, queueVars, appVars, ipcVars, uiVars>>

\* The `?` on Command::spawn() (mod.rs:56): an Err leaves play() at once.
SpawnOutcome_IgnoresError(s, ok) == [s EXCEPT !.pc = "store_lock"]

SpawnOutcome(s, ok) ==
    IF ok THEN [s EXCEPT !.pc = "store_lock"]
    ELSE [s EXCEPT !.pc = "idle", !.result = "Err"]

\* play(): Command::spawn() (mod.rs:49-56).  A failed spawn returns the error
\* to the caller; the attempt is recorded as a process that never ran.
PlaySpawn(ok) ==
    /\ sup.pc = "spawn"
    /\ procs' = Append(procs, [url |-> sup.url,
                               state |-> IF ok THEN "running" ELSE "failed",
                               bound |-> FALSE])
    /\ mon' = Append(mon, "unstarted")
    /\ sup' = SpawnOutcome(sup, ok)
    /\ UNCHANGED <<child, lock, sock, emitted, queueVars, appVars, ipcVars, uiVars>>

\* play(): child_arc.lock().await (mod.rs:59).
PlayStoreLock ==
    /\ sup.pc = "store_lock"
    /\ lock = None
    /\ lock' = Some(Supervisor)
    /\ sup' = [sup EXCEPT !.pc = "store"]
    /\ UNCHANGED <<child, procs, sock, mon, emitted, queueVars, appVars, ipcVars, uiVars>>

\* play(): *guard = Some(child), guard dropped (mod.rs:59).
PlayStore ==
    /\ sup.pc = "store"
    /\ child' = Some(Len(procs))
    /\ lock' = None
    /\ sup' = [sup EXCEPT !.pc = "monitors"]
    /\ UNCHANGED <<procs, sock, mon, emitted, queueVars, appVars, ipcVars, uiVars>>

\* play(): tokio::spawn of the exit monitor, return Ok (mod.rs:62-84, 158).
PlaySpawnMonitors ==
    /\ sup.pc = "monitors"
    /\ mon' = [mon EXCEPT ![Len(procs)] = "sleep"]
    /\ sup' = [sup EXCEPT !.pc = "idle", !.result = "Ok"]
    /\ UNCHANGED <<child, lock, procs, sock, emitted, queueVars, appVars, ipcVars, uiVars>>

\* An exit monitor that takes the guard without waiting for its holder.
MonLock_NoWait(m) ==
    /\ mon[m] = "sleep"
    /\ lock' = Some(m)
    /\ mon' = [mon EXCEPT ![m] = "locked"]
    /\ UNCHANGED <<child, procs, sock, sup, emitted, queueVars, appVars, ipcVars, uiVars>>

\* Exit monitor: the 500 ms sleep is over, arc.lock().await (mod.rs:66-67).
MonLock(m) ==
    /\ mon[m] = "sleep"
    /\ lock = None
    /\ lock' = Some(m)
    /\ mon' = [mon EXCEPT ![m] = "locked"]
    /\ UNCHANGED <<child, procs, sock, sup, emitted, queueVars, appVars, ipcVars, uiVars>>

\* One pass of the exit monitor's loop body under the guard (mod.rs:68-82):
\* the handle it leaves, whether PlaybackFinished is sent, and where the
\* task goes next.
ExitMonitorBody_KeepsHandle(ch) ==
    IF IsSome(ch)
    THEN IF Alive(Unwrap(ch))
         THEN [child |-> ch, finished |-> FALSE, pc |-> "sleep"]
         ELSE [child |-> ch, finished |-> TRUE, pc |-> "done"]
    ELSE [child |-> ch, finished |-> FALSE, pc |-> "done"]

ExitMonitorBody(ch) ==
    IF IsSome(ch)
    THEN IF Alive(Unwrap(ch))
         THEN [child |-> ch, finished |-> FALSE, pc |-> "sleep"]
         ELSE [child |-> None, finished |-> TRUE, pc |-> "done"]
    ELSE [child |-> ch, finished |-> FALSE, pc |-> "done"]

\* An exit monitor that keeps the guard across its sleep.
MonCheck_KeepsGuard(m) ==
    /\ mon[m] = "locked"
    /\ lock = Some(m)
    /\ LET body == ExitMonitorBody(child)
       IN /\ child' = body.child
          /\ mon' = [mon EXCEPT ![m] = body.pc]
          /\ lock' = IF body.pc = "sleep" THEN lock ELSE None
          /\ emitted' = IF body.finished
                        THEN Append(emitted, <<"PlaybackFinished", Unwrap(child)>>)
                        ELSE emitted
    /\ UNCHANGED <<procs, sock, sup, queueVars, appVars, ipcVars, uiVars>>

\* Exit monitor: try_wait on whatever child the shared handle holds now
\* (mod.rs:68-82); the guard is dropped at the end of the loop body.  The
\* PlaybackFinished event is recorded together with the pid whose exit was
\* seen.
MonCheck(m) ==
    /\ mon[m] = "locked"
    /\ lock = Some(m)
    /\ lock' = None
    /\ LET body == ExitMonitorBody(child)
       IN /\ child' = body.child
          /\ mon' = [mon EXCEPT ![m] = body.pc]
          /\ emitted' = IF body.finished
                        THEN Append(emitted, <<"PlaybackFinished", Unwrap(child)>>)
                        ELSE emitted
    /\ UNCHANGED <<procs, sock, sup, queueVars, appVars, ipcVars, uiVars>>

\* mpv binds its IPC socket some time after it started.
ProcBind(p) ==
    /\ Alive(p)
    /\ ~procs[p].bound
    /\ procs' = [procs EXCEPT ![p].bound = TRUE]
    /\ sock' = Some(p)
    /\ UNCHANGED <<child, lock, sup, mon, emitted, queueVars, appVars, ipcVars, uiVars>>

\* mpv exits: on its own ("exited": the stream ended or failed), or because
\* it obeyed the quit command it had received ("quit_exited").
ProcExit(p) ==
    /\ Alive(p)
    /\ procs' = [procs EXCEPT ![p].state =
                     IF procs[p].state = "running" THEN "exited" ELSE "quit_exited"]
    /\ UNCHANGED <<child, lock, sock, sup, mon, emitted, queueVars, appVars, ipcVars, uiVars>>

NextPlayer ==
    \/ \E url \in UrlInputs : PlayCall(url)
    \/ StopCall
    \/ StopQuit
    \/ StopUnlink
    \/ StopLock
    \/ StopKill
    \/ PlayUnlinkStale
    \/ \E ok \in BOOLEAN : PlaySpawn(ok)
    \/ PlayStoreLock
    \/ PlayStore
    \/ PlaySpawnMonitors
    \/ \E m \in Pids : MonLock(m)
    \/ \E m \in Pids : MonCheck(m)
    \/ \E p \in Pids : ProcBind(p)
    \/ \E p \in Pids : ProcExit(p)

SpecPlayer == Init /\ [][NextPlayer]_vars

\* A step of play()/stop() once called: the task is polled until it returns.
SupervisorStep ==
    \/ StopQuit
    \/ StopUnlink
    \/ StopLock
    \/ StopKill
    \/ PlayUnlinkStale
    \/ \E ok \in BOOLEAN : PlaySpawn(ok)
    \/ PlayStoreLock
    \/ PlayStore
    \/ PlaySpawnMonitors

\* Scheduling of the tokio runtime: a called play()/stop() and every spawned
\* exit monitor keep being polled, and the tokio Mutex hands the lock out in
\* FIFO order, so a task waiting in lock().await gets it (strong fairness on
\* the steps that take the lock).  Calls from the App and the exit of an mpv
\* process are not forced.
PlayerFairness ==
    /\ SF_vars(SupervisorStep)
    /\ \A m \in 1..MaxPlays : SF_vars(m \in Pids /\ MonLock(m))
    /\ \A m \in 1..MaxPlays : WF_vars(m \in Pids /\ MonCheck(m))

SpecPlayerFair == SpecPlayer /\ PlayerFairness

\* C3: after any sequence of play(url) and stop() calls on one supervisor,
\* under any interleaving with its exit monitors, at most one spawned player
\* process is alive, and none is alive when play() is about to spawn.
C3_AtMostOneAlive ==
    /\ Cardinality(AliveSet) <= 1
    /\ sup.pc \in {"unlink_stale", "spawn"} => AliveSet = {}

\* play() killed the process it held and the next one runs, while the exit
\* monitor started for the killed process has not finished yet.
C3_Witness ==
    \E p \in Pids, q \in Pids :
        /\ p < q
        /\ procs[p].state = "killed"
        /\ Alive(q)
        /\ child = Some(q)
        /\ mon[p] \in {"sleep", "locked"}

\* C16: once stop() has returned, also when no player was active and however
\* often it is called in a row, it returned Ok, the handle is empty, no
\* spawned process is alive and the socket file is absent.
C16_StopIdempotent ==
    (sup.pc = "idle" /\ sup.call = "stop") =>
        /\ sup.result = "Ok"
        /\ child = None
        /\ AliveSet = {}
        /\ sock = None

\* C17: a play() whose spawn failed returns the error, holds no process
\* afterwards and has started no monitor for the failed attempt; a play()
\* whose spawn succeeded returns Ok.
C17_SpawnFailure ==
    /\ \A p \in Pids :
          procs[p].state = "failed" => (mon[p] = "unstarted" /\ child # Some(p))
    /\ (sup.pc = "idle" /\ sup.call = "play") =>
          /\ sup.result \in {"Ok", "Err"}
          /\ sup.result = "Err" <=> procs[Len(procs)].state = "failed"
          /\ sup.result = "Err" => child = None

\* The second play() killed the first process and then failed to spawn.
C17_Witness ==
    /\ sup.pc = "idle"
    /\ sup.call = "play"
    /\ sup.result = "Err"
    /\ Len(procs) = 2
    /\ procs[1].state = "killed"
    /\ procs[2].state = "failed"
    /\ mon[2] = "unstarted"
    /\ child = None

\* Number of PlaybackFinished events emitted for the exit of process p.
FinishedCount(p) ==
    Cardinality({i \in 1..Len(emitted) : emitted[i] = <<"PlaybackFinished", p>>})

\* Process p exited on its own while it was the held child of a play() that
\* has returned.
ExitedOnItsOwn(p) ==
    /\ p \in Pids
    /\ procs[p].state = "exited"
    /\ mon[p] # "unstarted"

C20_OldMonitorsTerminate ==
    \A m \in 1..MaxPlays :
        (m \in Pids /\ Len(procs) > m /\ mon[m] # "unstarted")
           ~> (m \in Pids /\ mon[m] = "done")

\* C21: the handle is read, cleared, written and its process killed only by
\* the task that holds the mutex: an exit monitor inside its check-and-clear
\* and the supervisor inside its kill-and-clear or store are never there
\* together, and every step that changes the handle or kills a process is
\* taken by the holder, which releases the guard with that step.
C21_HandleUnderMutex ==
    /\ [](/\ \A m \in Pids : mon[m] = "locked" => lock = Some(m)
          /\ sup.pc \in {"kill", "store"} => lock = Some(Supervisor)
          /\ Cardinality({m \in Pids : mon[m] = "locked"}) <= 1)
    /\ [][(\/ child' # child
            \/ \E p \in Pids : procs[p].state # "killed" /\ procs'[p].state = "killed")
          => /\ IsSome(lock)
             /\ lock' = None
             /\ IF lock = Some(Supervisor)
                THEN sup.pc \in {"kill", "store"} /\ sup'.pc # sup.pc
                ELSE mon[Unwrap(lock)] = "locked" /\ mon'[Unwrap(lock)] = "done"]_vars

\* stop() waits for the guard while an exit monitor, holding it, is about to
\* clear the handle of the process that exited.
C21_Witness ==
    /\ sup.pc = "lock"
    /\ sup.call = "stop"
    /\ \E m \in Pids :
          /\ mon[m] = "locked"
          /\ lock = Some(m)
          /\ child = Some(m)
          /\ procs[m].state = "exited"

\* C22: an exit monitor never holds the guard while it sleeps or after it
\* ended, every pass of its loop body releases it, and under fair scheduling
\* every stop() and play() call that was started returns.
C22_NoDeadlock ==
    /\ [](\A m \in Pids : mon[m] # "locked" => lock # Some(m))
    /\ [][\A m \in Pids : (mon[m] = "locked" /\ mon'[m] # "locked") => lock' = None]_vars
    /\ (sup.pc # "idle") ~> (sup.pc = "idle")

\* The second play() returned although two exit monitors were competing for
\* the guard: one still polls, the other ended.
C22_Witness ==
    /\ sup.pc = "idle"
    /\ sup.call = "play"
    /\ sup.result = "Ok"
    /\ Len(procs) = 2
    /\ child = Some(2)
    /\ mon[1] = "done"
    /\ mon[2] = "locked"

\* Number of PlaybackLoading events among the first n emitted events.
LoadingCount(n) ==
    Cardinality({i \in 1..n : emitted[i] = <<"PlaybackLoading">>})

----------------------------------------------------------------------------
(* App: handle_action and the playback helpers (src/app/actions.rs,        *)
(* src/app/playback.rs).  A handler runs to completion before the next     *)
(* Action is received, so each handler is one step; the player is seen     *)
(* through the URL of the process it holds.  The helpers thread the App    *)
(* state st = [queue, np_current, playing, played, spawn, sent, result,    *)
(* discovery_items].                                                       *)

\* DiscoveryItems the user can select, playable or not.
ItemInputs == {Live1A, Live1B, Live2A, Episode1, Show1}

\* The App state at the start of a handler.
AppState ==
    [queue |-> queue, np_current |-> np_current, playing |-> playing,
     played |-> None, spawn |-> "none", sent |-> <<>>, result |-> "Ok",
     discovery_items |-> discovery_items, controls |-> controls]

\* NowPlaying::is_playing
NowPlaying_is_playing(st) == IsSome(st.np_current)

\* MpvPlayer::play as the App sees it: PlaybackLoading is sent, the held
\* process is stopped, and the new one is held if the spawn succeeded.
MpvPlayer_play(st, url, ok) ==
    [st EXCEPT !.sent = Append(st.sent, "PlaybackLoading"),
               !.played = Some(url),
               !.spawn = IF ok THEN "ok" ELSE "failed",
               !.playing = IF ok THEN Some(url) ELSE None]

\* MpvPlayer::stop as the App sees it.
MpvPlayer_stop(st) == [st EXCEPT !.playing = None]

\* PlayControls::set_queue_info (play_controls.rs:37-40)
PlayControls_set_queue_info(st, pos, len) ==
    [st EXCEPT !.controls = [queue_pos |-> pos, queue_len |-> len]]

\* A sync_play_controls that mirrors the length only.
App_sync_play_controls_LenOnly(st) ==
    PlayControls_set_queue_info(st, st.controls.queue_pos, Len(st.queue.items))

\* App::sync_play_controls (playback.rs:120-123)
App_sync_play_controls(st) ==
    PlayControls_set_queue_info(st, st.queue.current_index, Len(st.queue.items))

\* App::start_current_track
App_start_current_track(st, ok) ==
    LET track == Queue_current(st.queue)
    IN IF track = None THEN st
       ELSE LET st0 == App_sync_play_controls(st)
                st1 == [st0 EXCEPT !.np_current = Some(Unwrap(track).item)]
                st2 == MpvPlayer_play(st1, Unwrap(track).url, ok)
            IN [st2 EXCEPT !.sent = Append(st2.sent,
                                 IF ok THEN "PlaybackStarted" ELSE "ShowError")]

\* App::play_queue_track that restarts the current track when the cursor
\* could not move.
App_play_queue_track_AlwaysStarts(st, forward, ok) ==
    LET moved == IF forward THEN Queue_advance(st.queue) ELSE Queue_prev(st.queue)
    IN App_start_current_track([st EXCEPT !.queue = moved.q], ok)

\* App::play_queue_track with advance = Queue::advance (forward) or Queue::prev
App_play_queue_track(st, forward, ok) ==
    LET moved == IF forward THEN Queue_advance(st.queue) ELSE Queue_prev(st.queue)
    IN IF IsSome(moved.ret)
       THEN App_start_current_track([st EXCEPT !.queue = moved.q], ok)
       ELSE [st EXCEPT !.queue = moved.q]

\* App::play_item that starts the new item whatever is playing.
App_play_item_AlwaysPlays(st, item, ok) ==
    LET url == playback_url(item)
    IN IF url = None THEN st
       ELSE LET new_index == Len(st.queue.items)
                st1 == App_sync_play_controls([st EXCEPT !.queue =
                           Queue_add(st.queue, QueueItem(item, Unwrap(url), None))])
                st2 == App_sync_play_controls(
                           [st1 EXCEPT !.queue = Queue_play_at(st1.queue, new_index).q,
                                       !.np_current = Some(item)])
                st3 == MpvPlayer_play(st2, Unwrap(url), ok)
            IN IF ok
               THEN [st3 EXCEPT !.sent = Append(st3.sent, "PlaybackStarted")]
               ELSE [st3 EXCEPT !.result = "Err"]

\* App::play_item
App_play_item(st, item, ok) ==
    LET url == playback_url(item)
    IN IF url = None THEN st
       ELSE LET nothing_playing == ~NowPlaying_is_playing(st)
                new_index == Len(st.queue.items)
                st1 == App_sync_play_controls([st EXCEPT !.queue =
                           Queue_add(st.queue, QueueItem(item, Unwrap(url), None))])
            IN IF nothing_playing
               THEN LET st2 == App_sync_play_controls(
                               [st1 EXCEPT !.queue = Queue_play_at(st1.queue, new_index).q,
                                           !.np_current = Some(item)])
                        st3 == MpvPlayer_play(st2, Unwrap(url), ok)
                    IN IF ok
                       THEN [st3 EXCEPT !.sent = Append(st3.sent, "PlaybackStarted")]
                       ELSE [st3 EXCEPT !.result = "Err"]
               ELSE st1

\* App::enqueue
App_enqueue(st, item, insert_next) ==
    LET qi == QueueItem(item, unwrap_or_default(playback_url(item)), None)
    IN App_sync_play_controls(
           [st EXCEPT !.queue = IF insert_next THEN Queue_add_next(st.queue, qi)
                                ELSE Queue_add(st.queue, qi)])

\* App::remove_current_from_queue
App_remove_current_from_queue(st, ok) ==
    IF st.queue.current_index = None THEN st
    ELSE LET st1 == [st EXCEPT !.queue =
                        Queue_remove(st.queue, Unwrap(st.queue.current_index))]
         IN App_sync_play_controls(
                IF st1.queue.items = <<>>
                THEN [MpvPlayer_stop(st1) EXCEPT !.np_current = None]
                ELSE App_start_current_track(st1, ok))

\* DiscoveryList::set_items with no filter query set.
DiscoveryList_set_items(st, items) == [st EXCEPT !.discovery_items = items]

\* The handler for Action a, run on item it, ended in state st.
Handled(a, it, st) ==
    /\ queue' = st.queue
    /\ np_current' = st.np_current
    /\ playing' = st.playing
    /\ handled' = [action |-> a, item |-> it, played |-> st.played,
                   spawn |-> st.spawn, result |-> st.result]
    /\ sent' = st.sent
    /\ discovery_items' = st.discovery_items
    /\ controls' = st.controls
    /\ UNCHANGED <<last, playerVars, ipcVars, sess, search>>

\* Action::PlayItem(item)
HandlePlayItem(item, ok) ==
    /\ Len(queue.items) < MaxLen
    /\ Handled("PlayItem", Some(item), App_play_item(AppState, item, ok))

\* Action::AddToQueue(item)
HandleAddToQueue(item) ==
    /\ Len(queue.items) < MaxLen
    /\ Handled("AddToQueue", Some(item), App_enqueue(AppState, item, FALSE))

\* Action::AddToQueueNext(item)
HandleAddToQueueNext(item) ==
    /\ Len(queue.items) < MaxLen
    /\ Handled("AddToQueueNext", Some(item), App_enqueue(AppState, item, TRUE))

\* Action::NextTrack
HandleNextTrack(ok) ==
    Handled("NextTrack", None, App_play_queue_track(AppState, TRUE, ok))

\* Action::PrevTrack
HandlePrevTrack(ok) ==
    Handled("PrevTrack", None, App_play_queue_track(AppState, FALSE, ok))

\* Action::RemoveFromQueue
HandleRemoveFromQueue(ok) ==
    Handled("RemoveFromQueue", None, App_remove_current_from_queue(AppState, ok))

\* Action::ClearQueue
HandleClearQueue ==
    Handled("ClearQueue", None,
            PlayControls_set_queue_info([AppState EXCEPT !.queue = Queue_clear(queue)],
                                        None, 0))

\* Action::Stop
HandleStop ==
    Handled("Stop", None, MpvPlayer_stop(AppState))

\* Action::NtsLiveLoaded(items)
HandleNtsLiveLoaded(items) ==
    Handled("NtsLiveLoaded", None, DiscoveryList_set_items(AppState, items))

\* Action::PlaybackFinished
HandlePlaybackFinished(ok) ==
    Handled("PlaybackFinished", None,
            App_play_queue_track([AppState EXCEPT !.np_current = None], TRUE, ok))

\* The held mpv exits on its own and its exit monitor clears the handle.
MpvExits ==
    /\ IsSome(playing)
    /\ playing' = None
    /\ handled' = [action |-> "none", item |-> None, played |-> None,
                   spawn |-> "none", result |-> "Ok"]
    /\ sent' = <<>>
    /\ UNCHANGED <<queue, last, np_current, discovery_items, playerVars, ipcVars, uiVars>>

NextApp ==
    \/ \E item \in ItemInputs, ok \in BOOLEAN : HandlePlayItem(item, ok)
    \/ \E item \in ItemInputs : HandleAddToQueue(item)
    \/ \E item \in ItemInputs : HandleAddToQueueNext(item)
    \/ \E ok \in BOOLEAN : HandleNextTrack(ok)
    \/ \E ok \in BOOLEAN : HandlePrevTrack(ok)
    \/ \E ok \in BOOLEAN : HandleRemoveFromQueue(ok)
    \/ HandleClearQueue
    \/ HandleStop
    \/ \E ok \in BOOLEAN : HandlePlaybackFinished(ok)
    \/ \E items \in FreshInputs : HandleNtsLiveLoaded(items)
    \/ MpvExits

SpecApp == Init /\ [][NextApp]_vars

\* Entry i of the queue is a live channel with number ch.
IsLiveEntry(i, ch) ==
    /\ queue.items[i].item.kind = "NtsLiveChannel"
    /\ queue.items[i].item.channel = ch

\* C4: after any sequence of AddToQueue, AddToQueueNext and PlayItem actions
\* the queue holds at most one entry for any live-channel number.
C4_OneEntryPerLiveChannel ==
    \A i, j \in 1..Len(queue.items) :
        \A ch \in {1, 2} :
            (IsLiveEntry(i, ch) /\ IsLiveEntry(j, ch)) => i = j

\* C5: handling PlaybackFinished when a track follows the current one advances
\* current_index by exactly one and calls play() with that track's URL, which
\* the player then holds if mpv could be spawned; when the cursor is on the
\* last item or the queue is empty, the queue is unchanged and nothing is played.
C5_PlaybackFinishedAdvances ==
    [][handled'.action = "PlaybackFinished" =>
          LET n == Len(queue.items)
              c == IF IsSome(queue.current_index) THEN Unwrap(queue.current_index) ELSE -1
          IN IF c >= 0 /\ c + 1 < n
             THEN /\ queue'.current_index = Some(c + 1)
                  /\ queue'.items = queue.items
                  /\ handled'.played = Some(queue.items[c + 2].url)
                  /\ handled'.spawn = "ok" => playing' = Some(queue.items[c + 2].url)
                  /\ handled'.spawn = "failed" => playing' = None
             ELSE /\ queue' = queue
                  /\ handled'.played = None
                  /\ playing' = playing]_vars

\* PlaybackFinished moved the cursor from the first to the second track and
\* the player now holds a process for the second track's URL.
C5_Witness ==
    /\ handled.action = "PlaybackFinished"
    /\ handled.spawn = "ok"
    /\ QLen >= 2
    /\ Cursor = 1
    /\ queue.items[1].url # queue.items[2].url
    /\ handled.played = Some(queue.items[2].url)
    /\ playing = Some(queue.items[2].url)

\* C15: handling NtsLiveLoaded(fresh) leaves every live-channel entry of the
\* queue whose channel number the fresh list names with the show name and
\* genres of a fresh entry of that channel, and changes neither the length
\* and order of the queue nor the cursor.
C15_NtsLiveLoadedRefreshesQueue ==
    [][handled'.action = "NtsLiveLoaded" =>
          LET fresh == discovery_items'
          IN /\ SameOrder
             /\ queue'.current_index = queue.current_index
             /\ \A i \in 1..Len(queue.items) :
                   (/\ queue.items[i].item.kind = "NtsLiveChannel"
                    /\ \E k \in 1..Len(fresh) :
                          fresh[k].channel = queue.items[i].item.channel)
                   => \E k \in 1..Len(fresh) :
                          /\ fresh[k].channel = queue'.items[i].item.channel
                          /\ LiveFields(fresh[k]) = LiveFields(queue'.items[i].item)]_vars

\* C18: when mpv could not be spawned while PlayItem, NextTrack, PrevTrack,
\* RemoveFromQueue or PlaybackFinished was handled, the handler sent ShowError
\* and returned Ok, so that the event loop goes on.
C18_SpawnFailureShowsError ==
    (/\ handled.action \in {"PlayItem", "NextTrack", "PrevTrack",
                            "RemoveFromQueue", "PlaybackFinished"}
     /\ handled.spawn = "failed")
    => /\ handled.result = "Ok"
       /\ \E i \in 1..Len(sent) : sent[i] = "ShowError"

----------------------------------------------------------------------------
(* The metadata junk filter (src/player/ipc.rs:91-99), applied to values   *)
(* built as padding \o core \o padding.                                    *)

\* Characters str::trim removes (a sample of char::is_whitespace).
Whitespace == {" ", "\t", "\n"}

RECURSIVE trim_start(_)
trim_start(s) ==
    IF Len(s) > 0 /\ SubSeq(s, 1, 1) \in Whitespace
    THEN trim_start(SubSeq(s, 2, Len(s)))
    ELSE s

RECURSIVE trim_end(_)
trim_end(s) ==
    IF Len(s) > 0 /\ SubSeq(s, Len(s), Len(s)) \in Whitespace
    THEN trim_end(SubSeq(s, 1, Len(s) - 1))
    ELSE s

\* str::trim
trim(s) == trim_end(trim_start(s))

\* str::starts_with / str::ends_with
starts_with(s, prefix) ==
    Len(s) >= Len(prefix) /\ SubSeq(s, 1, Len(prefix)) = prefix

ends_with(s, suffix) ==
    Len(s) >= Len(suffix) /\ SubSeq(s, Len(s) - Len(suffix) + 1, Len(s)) = suffix

\* is_junk_metadata that compares the value as received.
is_junk_metadata_NoTrim(val, url) ==
    \/ val = ""
    \/ val = "stream"
    \/ starts_with(val, "http://")
    \/ starts_with(val, "https://")
    \/ val = url

\* is_junk_metadata
is_junk_metadata(val, url) ==
    LET trimmed == trim(val)
    IN \/ trimmed = ""
       \/ trimmed = "stream"
       \/ starts_with(trimmed, "http://")
       \/ starts_with(trimmed, "https://")
       \/ trimmed = url

\* Padding around a reported value.
PadInputs == {"", " ", "\t\n"}

\* Reported values without outer whitespace that begin with http:// or
\* https://.
HttpCores ==
    {"http://a", "http://track1", "https://", "https://example.com/stream",
     "https://stream-relay-geo.ntslive.net/stream"}

\* Reported values without outer whitespace.
CoreInputs ==
    HttpCores \cup
    {"", "stream", "Stream", "streams", "my stream", "httpx", "http:/",
     "HTTP://a", "ftp://a", "Song", "Artist - Song", "file.mp3"}

\* URLs being played: entered or fetched URLs, and a local path.
PlayedUrlInputs ==
    {"http://track1", "https://stream-relay-geo.ntslive.net/stream", "file.mp3"}

IsJunkMetadata(pre, core, post, url) ==
    /\ junk' = [called |-> TRUE, pre |-> pre, core |-> core, post |-> post,
                url |-> url,
                ret |-> is_junk_metadata(pre \o core \o post, url)]
    /\ UNCHANGED <<queueVars, playerVars, appVars, uiVars, obs, poller, reaper, volume>>

NextJunk ==
    \E pre \in PadInputs, core \in CoreInputs, post \in PadInputs,
       url \in PlayedUrlInputs : IsJunkMetadata(pre, core, post, url)

SpecJunk == Init /\ [][NextJunk]_vars

\* C24: the filter rejects a value exactly when, with the whitespace around
\* it removed, it is empty, is the literal "stream", begins with http:// or
\* https://, or equals the URL being played; every other value is accepted.
C24_JunkFilter ==
    junk.called =>
        (junk.ret <=> \/ junk.core \in {"", "stream"}
                      \/ junk.core \in HttpCores
                      \/ junk.core = junk.url)

\* A padded value equal to the played local path was rejected.
C24_Witness ==
    /\ junk.called
    /\ junk.pre = " "
    /\ junk.post = "\t\n"
    /\ junk.core = "file.mp3"
    /\ junk.url = "file.mp3"
    /\ junk.ret

----------------------------------------------------------------------------
(* One metadata observer task (src/player/ipc.rs:101-169): after a         *)
(* successful connect and the four observe_property commands it reads      *)
(* lines until the connection ends.                                        *)

\* Lines one observer reads before the connection ends.
MaxLines == 3

\* The metadata field observed under a property id 1..4 (ipc.rs:152-157).
FieldOf(id) ==
    CASE id = 1 -> "title"
      [] id = 2 -> "station_name"
      [] id = 3 -> "artist"
      [] id = 4 -> "album"

\* data.as_str().map(trim) filtered by the junk filter (ipc.rs:145-150).
CleanValue(data, url) ==
    IF data.t = "str" /\ ~is_junk_metadata(trim(data.v), url)
    THEN Some(trim(data.v))
    ELSE None

\* The loop body that sends the metadata after every property change.
Observer_line_NoDedup(o, line) ==
    IF \/ line.kind # "json"
       \/ line.event # Some("property-change")
       \/ line.id = None
       \/ Unwrap(line.id) \notin 1..4
    THEN o
    ELSE LET clean == CleanValue(line.data, o.url)
             f     == FieldOf(Unwrap(line.id))
             meta  == [o.meta EXCEPT ![f] = clean]
         IN [o EXCEPT !.meta = meta,
                      !.out = IF ~StreamMetadata_is_empty(meta)
                              THEN Append(o.out, meta) ELSE o.out]

\* The loop body without the junk filter.
Observer_line_NoFilter(o, line) ==
    IF \/ line.kind # "json"
       \/ line.event # Some("property-change")
       \/ line.id = None
       \/ Unwrap(line.id) \notin 1..4
    THEN o
    ELSE LET clean == IF line.data.t = "str" THEN Some(trim(line.data.v)) ELSE None
             f     == FieldOf(Unwrap(line.id))
             changed == o.meta[f] # clean
             meta  == [o.meta EXCEPT ![f] = clean]
         IN [o EXCEPT !.meta = meta,
                      !.out = IF changed /\ ~StreamMetadata_is_empty(meta)
                              THEN Append(o.out, meta) ELSE o.out]

\* The loop body of the observer for one line (ipc.rs:134-167).
Observer_line(o, line) ==
    IF \/ line.kind # "json"
       \/ line.event # Some("property-change")
       \/ line.id = None
       \/ Unwrap(line.id) \notin 1..4
    THEN o
    ELSE LET clean == CleanValue(line.data, o.url)
             f     == FieldOf(Unwrap(line.id))
             changed == o.meta[f] # clean
             meta  == [o.meta EXCEPT ![f] = clean]
         IN [o EXCEPT !.meta = meta,
                      !.out = IF changed /\ ~StreamMetadata_is_empty(meta)
                              THEN Append(o.out, meta) ELSE o.out]

\* "data" members of property-change events: strings, a number, null.
DataInputs ==
    {[t |-> "str", v |-> "Song"], [t |-> "str", v |-> " Song\n"],
     [t |-> "str", v |-> "Other"], [t |-> "str", v |-> "stream"],
     [t |-> "str", v |-> ""], [t |-> "str", v |-> "http://track1"],
     [t |-> "num", v |-> ""], [t |-> "null", v |-> ""]}

\* Lines mpv can send: property changes for ids inside and outside 1..4,
\* one without a numeric id, another event, a command reply, and garbage.
LineInputs ==
    {Line("json", Some("property-change"), Some(id), d.t, d.v) :
        id \in 0..5, d \in DataInputs}
    \cup {Line("json", Some("property-change"), None, "str", "Song"),
          Line("json", Some("end-file"), Some(1), "str", "Song"),
          Line("json", None, Some(1), "str", "Song"),
          Line("garbage", None, None, "null", "")}

\* The task was spawned by play(url); connect or a write of the observe
\* commands may fail, which ends it (ipc.rs:108-130).
ObserverStart(url, ok) ==
    /\ obs.pc = "unstarted"
    /\ obs' = [obs EXCEPT !.pc = IF ok THEN "reading" ELSE "done", !.url = url]
    /\ UNCHANGED <<queueVars, playerVars, appVars, uiVars, junk, poller, reaper, volume>>

\* lines.next_line() returned a line (ipc.rs:134).
ObserverLine(line) ==
    /\ obs.pc = "reading"
    /\ obs.lines < MaxLines
    /\ obs' = [Observer_line(obs, line) EXCEPT !.lines = obs.lines + 1,
                                               !.last = line]
    /\ UNCHANGED <<queueVars, playerVars, appVars, uiVars, junk, poller, reaper, volume>>

\* The connection ended or failed: the while-let loop is left (ipc.rs:134).
ObserverEof ==
    /\ obs.pc = "reading"
    /\ obs' = [obs EXCEPT !.pc = "done"]
    /\ UNCHANGED <<queueVars, playerVars, appVars, uiVars, junk, poller, reaper, volume>>

NextObserver ==
    \/ \E ok \in BOOLEAN : ObserverStart("http://track1", ok)
    \/ \E line \in LineInputs : ObserverLine(line)
    \/ ObserverEof

SpecObserver == Init /\ [][NextObserver]_vars

\* The observer read a line in this step.
ReadLine == obs.pc = "reading" /\ obs'.lines = obs.lines + 1

\* The line is a property change for one of the four observed properties.
ObservedChange(line) ==
    /\ line.kind = "json"
    /\ line.event = Some("property-change")
    /\ line.id \in {Some(1), Some(2), Some(3), Some(4)}

\* The observer sent StreamMetadataChanged in this step.
Emits == Len(obs'.out) = Len(obs.out) + 1

\* C25 as stated: a held field changes, or an event is emitted, only when
\* the filtered value differs from the held one and the resulting metadata
\* is not entirely empty; other lines change and emit nothing.
C25_ChangeOnlyWhenNonEmpty ==
    [][ReadLine =>
          LET line == obs'.last
          IN /\ (obs'.meta # obs.meta \/ Emits) =>
                   /\ ObservedChange(line)
                   /\ CleanValue(line.data, obs.url)
                         # obs.meta[FieldOf(Unwrap(line.id))]
                   /\ ~StreamMetadata_is_empty(obs'.meta)
             /\ ~ObservedChange(line) => (obs'.meta = obs.meta /\ obs'.out = obs.out)]_vars

\* C25, amended: a property change with id 1..4 sets that field, and no
\* other, to the filtered value, so the held metadata changes exactly when
\* the filtered value differs from the held one (also when that leaves the
\* metadata entirely empty); StreamMetadataChanged, carrying the resulting
\* metadata, is emitted exactly when the field changed and the resulting
\* metadata is not entirely empty; every other line changes and emits nothing.
C25_ObserverStep ==
    [][ReadLine =>
          LET line == obs'.last
          IN IF ObservedChange(line)
             THEN LET f == FieldOf(Unwrap(line.id))
                      clean == CleanValue(line.data, obs.url)
                  IN /\ obs'.meta = [obs.meta EXCEPT ![f] = clean]
                     /\ obs'.meta # obs.meta <=> clean # obs.meta[f]
                     /\ Emits <=> (clean # obs.meta[f]
                                    /\ ~StreamMetadata_is_empty(obs'.meta))
                     /\ Emits => obs'.out = Append(obs.out, obs'.meta)
                     /\ ~Emits => obs'.out = obs.out
             ELSE obs'.meta = obs.meta /\ obs'.out = obs.out]_vars

\* After a title was reported and emitted, a junk title cleared the field
\* without an event, leaving the metadata empty.
C25_Witness ==
    /\ obs.pc = "reading"
    /\ obs.lines = 2
    /\ obs.last = Line("json", Some("property-change"), Some(1), "str", "stream")
    /\ obs.meta = StreamMetadata_default
    /\ obs.out = <<StreamMetadata(None, Some("Song"), None, None)>>

\* The fields of a metadata value that are present.
PresentFields(m) ==
    {f \in {"station_name", "title", "artist", "album"} : IsSome(m[f])}

\* C26 as stated: no two consecutive emitted events carry equal metadata,
\* and no emitted metadata is entirely empty or holds a junk value.
C26_NoRepeatedEvent ==
    /\ \A i \in 1..(Len(obs.out) - 1) : obs.out[i] # obs.out[i + 1]
    /\ \A i \in 1..Len(obs.out) :
          /\ ~StreamMetadata_is_empty(obs.out[i])
          /\ \A f \in PresentFields(obs.out[i]) :
                ~is_junk_metadata(Unwrap(obs.out[i][f]), obs.url)

\* C26, amended: no emitted metadata is entirely empty or holds a junk
\* value; held metadata that is not empty is what was emitted last; every
\* emitted event differs from the metadata held before its line, and so from
\* the event emitted before it unless the held metadata had become entirely
\* empty in between.
C26_EmittedEvents ==
    /\ [](/\ \A i \in 1..Len(obs.out) :
                /\ ~StreamMetadata_is_empty(obs.out[i])
                /\ \A f \in PresentFields(obs.out[i]) :
                      ~is_junk_metadata(Unwrap(obs.out[i][f]), obs.url)
          /\ ~StreamMetadata_is_empty(obs.meta)
                => (Len(obs.out) > 0 /\ obs.out[Len(obs.out)] = obs.meta))
    /\ [][Emits =>
             /\ obs'.out[Len(obs'.out)] # obs.meta
             /\ (Len(obs.out) > 0 /\ ~StreamMetadata_is_empty(obs.meta))
                   => obs'.out[Len(obs'.out)] # obs.out[Len(obs.out)]]_vars

\* The same title was emitted twice in a row: a junk title had emptied the
\* metadata in between.
C26_Witness ==
    /\ obs.lines = 3
    /\ obs.out = <<StreamMetadata(None, Some("Song"), None, None),
                   StreamMetadata(None, Some("Song"), None, None)>>
    /\ obs.meta = StreamMetadata(None, Some("Song"), None, None)

----------------------------------------------------------------------------
(* One position poller task (src/player/ipc.rs:21-29, 65-89)               *)

\* Reads one poller makes before the model stops following it.
MaxPolls == 3

SOCKET_POLL_ATTEMPTS == 20

\* wait_for_socket: one pass of its loop (ipc.rs:23-28).
wait_for_socket_step(p, exists) ==
    IF exists \/ p.attempts + 1 = SOCKET_POLL_ATTEMPTS
    THEN [p EXCEPT !.pc = "polling",
                   !.attempts = IF exists THEN p.attempts ELSE p.attempts + 1]
    ELSE [p EXCEPT !.attempts = p.attempts + 1]

\* serde_json::from_str(&response) and val.get("data").as_f64()
\* (ipc.rs:80-81): the position, if the response carries a number.
PositionOf(resp) ==
    IF resp.kind = "json" /\ resp.data.t = "num" THEN Some(resp.data.v) ELSE None

\* The loop body of a poller that gives up on a response it cannot use.
Poller_read_StopsOnMalformed(p, resp) ==
    IF ~resp.ok \/ PositionOf(resp) = None
    THEN [p EXCEPT !.pc = "done"]
    ELSE [p EXCEPT !.out = Append(p.out, Unwrap(PositionOf(resp)))]

\* The loop body of the poller after its sleep (ipc.rs:71-86).
Poller_read(p, resp) ==
    IF ~resp.ok
    THEN [p EXCEPT !.pc = "done"]
    ELSE IF IsSome(PositionOf(resp))
         THEN [p EXCEPT !.out = Append(p.out, Unwrap(PositionOf(resp)))]
         ELSE p

\* Results of the get_property playback-time command.
ResponseInputs ==
    {Response(FALSE, "none", "null", 0),
     Response(TRUE, "garbage", "null", 0),
     Response(TRUE, "json", "null", 0),
     Response(TRUE, "json", "str", 12),
     Response(TRUE, "json", "num", 0),
     Response(TRUE, "json", "num", 12)}

\* tokio::spawn of the poller by play() (ipc.rs:67).
PollerStart ==
    /\ poller.pc = "unstarted"
    /\ poller' = [poller EXCEPT !.pc = "wait"]
    /\ UNCHANGED <<queueVars, playerVars, appVars, uiVars, junk, obs, reaper, volume>>

PollerWait(exists) ==
    /\ poller.pc = "wait"
    /\ poller' = wait_for_socket_step(poller, exists)
    /\ UNCHANGED <<queueVars, playerVars, appVars, uiVars, junk, obs, reaper, volume>>

PollerRead(resp) ==
    /\ poller.pc = "polling"
    /\ poller.polls < MaxPolls
    /\ poller' = [Poller_read(poller, resp) EXCEPT !.polls = poller.polls + 1,
                                                   !.last = resp]
    /\ UNCHANGED <<queueVars, playerVars, appVars, uiVars, junk, obs, reaper, volume>>

NextPoller ==
    \/ PollerStart
    \/ \E exists \in BOOLEAN : PollerWait(exists)
    \/ \E resp \in ResponseInputs : PollerRead(resp)

SpecPoller == Init /\ [][NextPoller]_vars

\* C27: a read whose response carries a number emits one PlaybackPosition
\* with that number and the poller goes on; a read whose response is not
\* JSON or has no numeric data emits nothing and the poller goes on; the
\* first failed command ends the poller without an event, and an ended
\* poller does nothing more.
C27_PositionPoller ==
    /\ [][poller'.polls = poller.polls + 1 =>
             LET r == poller'.last
             IN /\ poller.pc = "polling"
                /\ IF ~r.ok
                   THEN poller'.pc = "done" /\ poller'.out = poller.out
                   ELSE /\ poller'.pc = "polling"
                        /\ poller'.out =
                             IF r.kind = "json" /\ r.data.t = "num"
                             THEN Append(poller.out, r.data.v)
                             ELSE poller.out]_vars
    /\ [][poller.pc = "done" => poller' = poller]_vars

\* The poller reported a position, ignored a response it could not parse,
\* and ended on the failed third read.
C27_Witness ==
    /\ poller.pc = "done"
    /\ poller.polls = 3
    /\ poller.out = <<12>>
    /\ ~poller.last.ok
    /\ poller.attempts = SOCKET_POLL_ATTEMPTS

----------------------------------------------------------------------------
(* The orphan reaper run by main() before the App exists                   *)
(* (src/main.rs:19-44, 54)                                                 *)

Digits == <<"0", "1", "2", "3", "4", "5", "6", "7", "8", "9">>

RECURSIVE ToDec(_)
\* Display of a u32, as format!("{}", pid) writes it.
ToDec(n) ==
    IF n < 10 THEN Digits[n + 1] ELSE ToDec(n \div 10) \o Digits[(n % 10) + 1]

\* format!("clisten-mpv-{}.sock", pid) (main.rs:21; player/mod.rs:25).
socket_name(pid) == "clisten-mpv-" \o ToDec(pid) \o ".sock"

\* Process ids of runs of the application, finished or still running.
InstancePids == {3, 7, 12}

\* Names in the temp directory that have the shape of a player socket.
SocketNames == {socket_name(p) : p \in InstancePids}

\* Names in the temp directory that do not.
OtherNames == {"clisten-mpv-7.sock.bak", "xclisten-mpv-7.sock"}

TmpNames == SocketNames \cup OtherNames

\* A directory entry is absent, a file nobody listens on, or the socket of
\* a running mpv.
TmpInputs ==
    {d \in [TmpNames -> {"absent", "stale", "listening"}] :
        \A n \in OtherNames : d[n] # "listening"}

\* The loop body of a reaper that keeps the file of a player it could not
\* reach.
Reaper_visit_KeepsUnreached(r, name, delivered) ==
    IF ~starts_with(name, "clisten-mpv-") \/ ~ends_with(name, ".sock")
    THEN [r EXCEPT !.todo = r.todo \ {name}]
    ELSE IF name = socket_name(r.own)
         THEN [r EXCEPT !.todo = r.todo \ {name}]
         ELSE LET reached == r.tmp[name] = "listening" /\ delivered
              IN [r EXCEPT !.todo = r.todo \ {name},
                           !.quit = r.quit \cup {name},
                           !.killed = IF reached THEN r.killed \cup {name}
                                      ELSE r.killed,
                           !.tmp[name] = IF reached THEN "absent"
                                         ELSE r.tmp[name]]

\* The loop body of kill_orphaned_mpv for one directory entry
\* (main.rs:28-42); delivered says whether a listening player takes the
\* quit command.
Reaper_visit(r, name, delivered) ==
    IF ~starts_with(name, "clisten-mpv-") \/ ~ends_with(name, ".sock")
    THEN [r EXCEPT !.todo = r.todo \ {name}]
    ELSE IF name = socket_name(r.own)
         THEN [r EXCEPT !.todo = r.todo \ {name}]
         ELSE [r EXCEPT !.todo = r.todo \ {name},
                        !.quit = r.quit \cup {name},
                        !.killed = IF r.tmp[name] = "listening" /\ delivered
                                   THEN r.killed \cup {name}
                                   ELSE r.killed,
                        !.tmp[name] = "absent"]

\* main() calls kill_orphaned_mpv (main.rs:54): the process has id pid,
\* finds the temp directory as dir while the instances in live are running,
\* and read_dir succeeds or not (main.rs:20-25).
ReaperStart(pid, dir, live, ok) ==
    /\ reaper.pc = "unstarted"
    /\ LET entries == IF ok THEN {n \in TmpNames : dir[n] # "absent"} ELSE {}
       IN reaper' = [reaper EXCEPT !.pc = IF entries = {} THEN "done"
                                          ELSE "scanning",
                                   !.own = pid,
                                   !.live = live,
                                   !.listed = ok,
                                   !.todo = entries,
                                   !.before = dir,
                                   !.tmp = dir]
    /\ UNCHANGED <<queueVars, playerVars, appVars, uiVars, junk, obs, poller, volume>>

\* One pass of the for loop (main.rs:28-43).
ReaperVisit(name, delivered) ==
    /\ reaper.pc = "scanning"
    /\ name \in reaper.todo
    /\ LET r == Reaper_visit(reaper, name, delivered)
       IN reaper' = [r EXCEPT !.pc = IF r.todo = {} THEN "done" ELSE "scanning"]
    /\ UNCHANGED <<queueVars, playerVars, appVars, uiVars, junk, obs, poller, volume>>

NextReaper ==
    \/ /\ reaper.pc = "unstarted"
       /\ \E pid \in InstancePids, ok \in BOOLEAN :
            \E live \in SUBSET (InstancePids \ {pid}), dir \in TmpInputs :
                ReaperStart(pid, dir, live, ok)
    \/ \E name \in reaper.todo, delivered \in BOOLEAN : ReaperVisit(name, delivered)

SpecReaper == Init /\ [][NextReaper]_vars

\* C28: once the sweep has visited an entry whose name starts with
\* clisten-mpv- and ends with .sock and is not the name for the current
\* process id, quit was sent to it and the file is gone, whether or not the
\* quit reached a player; when the sweep of a listed directory ends, this
\* holds for every such entry; the file named for the current process id
\* and the files of other names are never sent quit and stay as they were.
C28_ReaperSweep ==
    reaper.pc # "unstarted" =>
        LET own_socket == socket_name(reaper.own)
            present == {n \in TmpNames : reaper.before[n] # "absent"}
            visited == IF reaper.listed THEN present \ reaper.todo ELSE {}
        IN /\ \A n \in (SocketNames \ {own_socket}) \cap visited :
                n \in reaper.quit /\ reaper.tmp[n] = "absent"
           /\ reaper.pc = "done" /\ reaper.listed => reaper.todo = {}
           /\ reaper.killed \subseteq reaper.quit
           /\ reaper.quit \subseteq SocketNames \ {own_socket}
           /\ \A n \in reaper.quit : reaper.tmp[n] = "absent"
           /\ \A n \in OtherNames \cup {own_socket} :
                n \notin reaper.quit /\ reaper.tmp[n] = reaper.before[n]

\* The sweep of process 12 is over: the stale socket of run 7 was deleted
\* though nobody took the quit, the player of run 3 was told to quit and
\* its socket deleted, and the process's own socket and a backup file are
\* still there.
C28_Witness ==
    /\ reaper.pc = "done"
    /\ reaper.own = 12
    /\ reaper.before["clisten-mpv-7.sock"] = "stale"
    /\ reaper.before["clisten-mpv-3.sock"] = "listening"
    /\ reaper.quit = {"clisten-mpv-7.sock", "clisten-mpv-3.sock"}
    /\ reaper.killed = {"clisten-mpv-3.sock"}
    /\ reaper.tmp["clisten-mpv-7.sock"] = "absent"
    /\ reaper.tmp["clisten-mpv-3.sock"] = "absent"
    /\ reaper.tmp["clisten-mpv-12.sock"] = "stale"
    /\ reaper.tmp["clisten-mpv-7.sock.bak"] = "stale"

\* C29: the player of an instance that is still running is never sent quit
\* and its socket file is never deleted by the sweep of another instance.
C29_LivePlayersSpared ==
    reaper.pc # "unstarted" =>
        \A p \in reaper.live :
            /\ socket_name(p) \notin reaper.quit
            /\ reaper.tmp[socket_name(p)] = reaper.before[socket_name(p)]

----------------------------------------------------------------------------
(* Volume control (src/player/mod.rs:191-209, src/app/playback.rs:94-101)  *)

\* adjust_volume calls the model follows.
MaxVolumeCalls == 3

\* f64::clamp(lo, hi) on a number.
clamp(x, lo, hi) == IF x < lo THEN lo ELSE IF x > hi THEN hi ELSE x

\* get_volume (mod.rs:201-209) on the result of its command: Some(volume)
\* for Ok, None for each of its three errors.
get_volume(resp) ==
    IF resp.ok /\ resp.kind = "json" /\ resp.data.t = "num"
    THEN Some(resp.data.v)
    ELSE None

\* The target of a set_volume that does not bound the sum.
set_volume_target_NoClamp(resp, delta) ==
    LET current == IF IsSome(get_volume(resp)) THEN Unwrap(get_volume(resp)) ELSE 50
    IN current + delta

\* The target set_volume computes (mod.rs:192-193).
set_volume_target(resp, delta) ==
    LET current == IF IsSome(get_volume(resp)) THEN Unwrap(get_volume(resp)) ELSE 50
    IN clamp(current + delta, 0, 100)

\* What a get_property volume command can come back with while the player
\* holds volume v.
VolumeReads(v) ==
    {Response(FALSE, "none", "null", 0),
     Response(TRUE, "garbage", "null", 0),
     Response(TRUE, "json", "null", 0),
     Response(TRUE, "json", "num", v)}

\* Volumes a player starts with (mpv allows 0 to 130).
MpvVolumeInputs == {0, 3, 50, 97, 100, 130}

\* VolumeUp and VolumeDown (src/app/actions.rs:221-222).
DeltaInputs == {5, 0 - 5}

\* A player is running with volume v.
MpvVolume(v) ==
    /\ volume.pc = "unstarted"
    /\ volume' = [volume EXCEPT !.pc = "running", !.mpv = v]
    /\ UNCHANGED <<queueVars, playerVars, appVars, uiVars, junk, obs, poller, reaper>>

\* App::adjust_volume(delta) (playback.rs:94-101): set_volume, whose error
\* is dropped, then a second read that is reported as VolumeChanged.
\* read is the result of set_volume's read, set_ok that of its
\* set_property command, read_ok that of the second read.
AdjustVolume(delta, read, set_ok, read_ok) ==
    /\ volume.pc = "running"
    /\ volume.calls < MaxVolumeCalls
    /\ LET target == set_volume_target(read, delta)
           now == IF set_ok THEN target ELSE volume.mpv
       IN volume' = [volume EXCEPT
              !.calls = volume.calls + 1,
              !.mpv = now,
              !.sent = IF read_ok
                       THEN Append(volume.sent, <<"VolumeChanged", clamp(now, 0, 100)>>)
                       ELSE volume.sent,
              !.last = [delta |-> delta, read |-> read, issued |-> TRUE,
                        target |-> target,
                        result |-> IF set_ok THEN "Ok" ELSE "Err"]]
    /\ UNCHANGED <<queueVars, playerVars, appVars, uiVars, junk, obs, poller, reaper>>

NextVolume ==
    \/ \E v \in MpvVolumeInputs : MpvVolume(v)
    \/ \E delta \in DeltaInputs, read \in VolumeReads(volume.mpv),
          set_ok \in BOOLEAN, read_ok \in BOOLEAN :
            AdjustVolume(delta, read, set_ok, read_ok)

SpecVolume == Init /\ [][NextVolume]_vars

\* C30: every set_volume(delta) issues a set-property command; its target
\* is the sum of delta and the volume just read (50 when the read failed
\* or carried no number), brought to 0 when below 0 and to 100 when above
\* 100, so the target is always within 0..100.
C30_VolumeTarget ==
    volume.calls > 0 =>
        LET l == volume.last
            current == IF l.read.ok /\ l.read.kind = "json" /\ l.read.data.t = "num"
                       THEN l.read.data.v
                       ELSE 50
            sum == current + l.delta
        IN /\ l.issued
           /\ l.target \in 0..100
           /\ sum \in 0..100 => l.target = sum
           /\ sum < 0 => l.target = 0
           /\ sum > 100 => l.target = 100

\* Volume up on a player at 130 asked for 100; the next read failed and
\* volume down asked for 45.
C30_Witness ==
    /\ volume.calls = 2
    /\ volume.sent = <<<<"VolumeChanged", 100>>>>
    /\ ~volume.last.read.ok
    /\ volume.last.delta = 0 - 5
    /\ volume.last.target = 45
    /\ volume.mpv = 45

----------------------------------------------------------------------------
(* Further properties of the App handlers, checked under SpecApp           *)

\* C31: handling RemoveFromQueue with the cursor on an item removes that
\* item; if a track followed it, that track is the current item afterwards
\* and play() was called with its URL; otherwise nothing is played and the
\* player holds no process.
C31_RemovePlaysFollowing ==
    [][(handled'.action = "RemoveFromQueue" /\ IsSome(queue.current_index)) =>
          LET n == Len(queue.items)
              c == Unwrap(queue.current_index)
          IN /\ queue'.items = VecRemove(queue.items, c)
             /\ IF c + 1 < n
                THEN /\ Queue_current(queue') = Some(queue.items[c + 2])
                     /\ handled'.played = Some(queue.items[c + 2].url)
                ELSE /\ handled'.played = None
                     /\ playing' = None]_vars

C38_QueueUrlsNonEmpty ==
    \A i \in 1..Len(queue.items) : queue.items[i].url # ""

\* C39: after every handled action the queue position and length held by
\* the play controls equal the queue's current_index and len.
C39_ControlsMirrorQueue ==
    /\ controls.queue_pos = queue.current_index
    /\ controls.queue_len = Len(queue.items)

\* RemoveFromQueue was handled with the cursor on the second of three
\* items: the controls show position 0 of 2, as the queue has it.
C39_Witness ==
    /\ handled.action = "RemoveFromQueue"
    /\ Len(queue.items) = 2
    /\ queue.current_index = Some(0)
    /\ controls = [queue_pos |-> Some(0), queue_len |-> 2]

----------------------------------------------------------------------------
(* Searches: App::search_by_genre / search_by_query and their paging tasks *)
(* (src/app/fetch.rs), the SearchResultsPartial handler and                *)
(* switch_sub_tab (src/app/actions.rs).  A task's messages are handled in  *)
(* the order it sent them; a run of `count` episodes found by search `sid` *)
(* is one list entry.                                                      *)

\* Searches started in the runs that follow several searches.
MaxSearches == 2

\* Searches started in the runs that follow a task page by page.
MaxTaskSearches == 1

\* SwitchSubTab actions in a run.
MaxSwitches == 1

SEARCH_PAGE_SIZE == 12

SEARCH_MAX_OFFSET == 240

SEARCH_BATCH_SIZE == 48

\* Action::SearchResultsPartial { search_id, items, done }, items by count.
SearchResultsPartial(sid, count, done) ==
    [search_id |-> sid, items |-> count, done |-> done]

\* `count` episodes found by search sid, as they stand in the list.
SearchBatch(sid, count) == [kind |-> "SearchBatch", sid |-> sid, count |-> count]

\* What a tab's own load puts into the list.
TabItems(tab) == <<[kind |-> "TabItems", tab |-> tab]>>

\* Result of one search_episodes call: Err, or Ok with `got` episodes.
Page(ok, got) == [ok |-> ok, got |-> got]

PageInputs == {Page(FALSE, 0), Page(TRUE, 5), Page(TRUE, SEARCH_PAGE_SIZE)}

\* The pages of searches that find fewer results than one page holds.
ShortPageInputs == {p \in PageInputs : ~p.ok \/ p.got < SEARCH_PAGE_SIZE}

\* The task spawned by search sid, before its first request (fetch.rs:71-73).
SearchTask_new(kind) ==
    [kind |-> kind, pc |-> "running", offset |-> 0, buf |-> 0, requests |-> 0,
     asked |-> 0, page |-> Page(TRUE, 0), out |-> <<>>, seen |-> 0]

\* The flush after the loop (fetch.rs:103-110).
SearchTask_flush(t, sid) ==
    [t EXCEPT !.pc = "done",
              !.buf = 0,
              !.out = Append(t.out, SearchResultsPartial(sid, t.buf, TRUE))]

\* One pass of a loop that goes on after a short page.
SearchTask_page_IgnoresShort(t, sid, page) ==
    LET t0 == [t EXCEPT !.requests = t.requests + 1, !.asked = t.offset,
                        !.page = page]
    IN IF ~page.ok
       THEN SearchTask_flush(t0, sid)
       ELSE LET offset == t.offset + SEARCH_PAGE_SIZE
                buf == t.buf + page.got
                send == buf >= SEARCH_BATCH_SIZE \/ offset > SEARCH_MAX_OFFSET
                t1 == [t0 EXCEPT
                         !.offset = offset,
                         !.buf = IF send THEN 0 ELSE buf,
                         !.out = IF send
                                 THEN Append(t.out, SearchResultsPartial(
                                          sid, buf, offset > SEARCH_MAX_OFFSET))
                                 ELSE t.out]
            IN IF offset <= SEARCH_MAX_OFFSET THEN t1
               ELSE SearchTask_flush(t1, sid)

\* One pass of the task's while loop, from the request at t.offset to the
\* next request or, once the loop ends, through the final flush
\* (fetch.rs:75-110); nothing is awaited between the response and either.
SearchTask_page(t, sid, page) ==
    LET t0 == [t EXCEPT !.requests = t.requests + 1, !.asked = t.offset,
                        !.page = page]
    IN IF ~page.ok
       THEN SearchTask_flush(t0, sid)
       ELSE IF page.got < SEARCH_PAGE_SIZE
            THEN SearchTask_flush([t0 EXCEPT !.buf = t.buf + page.got], sid)
            ELSE LET offset == t.offset + SEARCH_PAGE_SIZE
                     buf == t.buf + page.got
                     send == buf >= SEARCH_BATCH_SIZE \/ offset > SEARCH_MAX_OFFSET
                     t1 == [t0 EXCEPT
                              !.offset = offset,
                              !.buf = IF send THEN 0 ELSE buf,
                              !.out = IF send
                                      THEN Append(t.out, SearchResultsPartial(
                                               sid, buf, offset > SEARCH_MAX_OFFSET))
                                      ELSE t.out]
                 IN IF offset <= SEARCH_MAX_OFFSET THEN t1
                    ELSE SearchTask_flush(t1, sid)

\* The state the search handlers work on: the App's search fields and the
\* DiscoveryList's items.
SearchState == [s |-> search, items |-> discovery_items]

\* DiscoveryList::set_items with no filter set (discovery_list.rs:44-54).
List_set_items(st, items) ==
    [st EXCEPT !.items = items, !.s.loading = FALSE]

\* DiscoveryList::append_items with no filter set (discovery_list.rs:82-97).
List_append_items(st, new_items) == [st EXCEPT !.items = st.items \o new_items]

\* DiscoveryList::set_loading
List_set_loading(st, loading) == [st EXCEPT !.s.loading = loading]

\* App::search_by_genre and App::search_by_query (fetch.rs:61-73, 115-127).
App_search(st, kind) ==
    LET st1 == [st EXCEPT !.s.id = st.s.id + 1]
        st2 == List_set_loading(List_set_items(st1, <<>>), TRUE)
        st3 == IF kind = "genre"
               THEN [st2 EXCEPT !.s.viewing_genre_results = TRUE]
               ELSE [st2 EXCEPT !.s.viewing_query_results = TRUE]
    IN [st3 EXCEPT !.s.tasks = Append(st.s.tasks, SearchTask_new(kind))]

\* A SearchResultsPartial handler that does not look at the search id.
App_search_results_partial_AnyId(st, msg) ==
    LET st1 == IF msg.items > 0
               THEN List_append_items(st, <<SearchBatch(msg.search_id, msg.items)>>)
               ELSE st
    IN IF msg.done THEN List_set_loading(st1, FALSE) ELSE st1

\* The SearchResultsPartial arm of handle_action (actions.rs:67-80).
App_search_results_partial(st, msg) ==
    IF msg.search_id = st.s.id
    THEN LET st1 == IF msg.items > 0
                    THEN List_append_items(st, <<SearchBatch(msg.search_id, msg.items)>>)
                    ELSE st
         IN IF msg.done THEN List_set_loading(st1, FALSE) ELSE st1
    ELSE st

\* NtsSubTab::ALL.get(index) (components/nts/mod.rs:27, 54).
SubTabAt(index) ==
    IF index = 0 THEN Some("Live")
    ELSE IF index = 1 THEN Some("Picks")
    ELSE IF index = 2 THEN Some("Search")
    ELSE None

\* App::switch_sub_tab (actions.rs:259-280): the list is emptied and set
\* loading, and the load of the tab now active is requested.
App_switch_sub_tab(st, idx) ==
    LET st1 == List_set_loading(List_set_items(st, <<>>), TRUE)
        tab == IF IsSome(SubTabAt(idx)) THEN Unwrap(SubTabAt(idx)) ELSE st.s.active_sub
    IN [st1 EXCEPT !.s.viewing_genre_results = FALSE,
                   !.s.viewing_query_results = FALSE,
                   !.s.active_sub = tab,
                   !.s.loads = Append(st.s.loads, tab)]

\* The handler ended in state st.
SearchHandled(st) ==
    /\ search' = st.s
    /\ discovery_items' = st.items
    /\ UNCHANGED <<queueVars, playerVars, np_current, playing, handled, sent,
                   ipcVars, sess, controls>>

\* Action::SearchSubmit with a query typed (actions.rs:86-94): the Search
\* tab becomes the active one and SearchByQuery is sent.
HandleSearchSubmit ==
    /\ search.active_sub # "Search"
    /\ SearchHandled([SearchState EXCEPT !.s.active_sub = "Search"])

\* Action::SearchByGenre / Action::SearchByQuery, at most max of them; both
\* are sent from the Search tab (a genre entry selected, a query submitted).
HandleSearch(kind, max) ==
    /\ search.id < max
    /\ search.active_sub = "Search"
    /\ SearchHandled(App_search(SearchState, kind))

\* The task of search sid gets the response to its request.
SearchTaskPage(sid, page) ==
    /\ sid \in 1..Len(search.tasks)
    /\ search.tasks[sid].pc = "running"
    /\ SearchHandled([SearchState EXCEPT
           !.s.tasks[sid] = SearchTask_page(search.tasks[sid], sid, page)])

\* Action::SearchResultsPartial: the next message of task sid is received.
HandleSearchResultsPartial(sid) ==
    /\ sid \in 1..Len(search.tasks)
    /\ search.tasks[sid].seen < Len(search.tasks[sid].out)
    /\ LET t == search.tasks[sid]
           st == App_search_results_partial(SearchState, t.out[t.seen + 1])
       IN SearchHandled([st EXCEPT !.s.tasks[sid].seen = t.seen + 1])

\* Action::SwitchSubTab(idx); the searches started so far are noted.
HandleSwitchSubTab(idx) ==
    /\ search.switches < MaxSwitches
    /\ LET st == App_switch_sub_tab(SearchState, idx)
       IN SearchHandled([st EXCEPT !.s.switches = search.switches + 1,
                                   !.s.stale = 1..search.id])

\* The load requested by a tab switch comes back: NtsLiveLoaded,
\* NtsPicksLoaded or GenresLoaded puts the tab's items into the list
\* (actions.rs:55-63); a failed fetch only shows an error (fetch.rs:22-27).
HandleTabLoaded(ok) ==
    /\ search.loads # <<>>
    /\ LET tab == Head(search.loads)
           st0 == [SearchState EXCEPT !.s.loads = Tail(search.loads)]
           st1 == IF ok \/ tab = "Search" THEN List_set_items(st0, TabItems(tab))
                  ELSE st0
       IN SearchHandled(IF tab = "Search"
                        THEN [st1 EXCEPT !.s.viewing_genre_results = FALSE,
                                         !.s.viewing_query_results = FALSE]
                        ELSE st1)

NextSearch ==
    \/ HandleSearchSubmit
    \/ \E kind \in {"genre", "query"} : HandleSearch(kind, MaxSearches)
    \/ \E sid \in 1..MaxSearches, page \in ShortPageInputs : SearchTaskPage(sid, page)
    \/ \E sid \in 1..MaxSearches : HandleSearchResultsPartial(sid)
    \/ \E idx \in 0..3 : HandleSwitchSubTab(idx)
    \/ \E ok \in BOOLEAN : HandleTabLoaded(ok)

SpecSearch == Init /\ [][NextSearch]_vars

\* Entries of the list that hold results of search sid.
ResultsOf(sid) ==
    {i \in 1..Len(discovery_items) :
        discovery_items[i].kind = "SearchBatch" /\ discovery_items[i].sid = sid}

\* C33: handling a SearchResultsPartial of a search that is not the one
\* started last changes neither the list nor the loading flag; the list
\* never holds a result of a search older than the one started last; and
\* search_id never decreases.
C33_StalePartialIgnored ==
    /\ [][\A sid \in 1..Len(search.tasks) :
             (search'.tasks[sid].seen = search.tasks[sid].seen + 1 /\ sid # search.id)
             => /\ discovery_items' = discovery_items
                /\ search'.loading = search.loading]_vars
    /\ [][\A sid \in 1..Len(search.tasks) :
             sid < search'.id => ResultsOf(sid)' = {}]_vars
    /\ [][search'.id >= search.id]_vars

\* The final message of the first search, carrying five episodes, was
\* handled after the second search had started: the list is still empty
\* and still loading.
C33_Witness ==
    /\ search.id = 2
    /\ search.tasks[1].pc = "done"
    /\ search.tasks[1].seen = Len(search.tasks[1].out)
    /\ search.tasks[1].out[Len(search.tasks[1].out)].items = 5
    /\ search.tasks[2].seen = 0
    /\ discovery_items = <<>>
    /\ search.loading

\* C37: once SwitchSubTab has been handled, the list holds no result of a
\* search that had been started before the switch.
C37_NoResultsAfterSwitch ==
    \A sid \in search.stale : ResultsOf(sid) = {}

----------------------------------------------------------------------------
(* The task of a genre search followed page by page                        *)

NextSearchTask ==
    \/ HandleSearchSubmit
    \/ HandleSearch("genre", MaxTaskSearches)
    \/ \E sid \in 1..MaxTaskSearches, page \in PageInputs : SearchTaskPage(sid, page)
    \/ \E sid \in 1..MaxTaskSearches : HandleSearchResultsPartial(sid)

\* The tokio runtime keeps polling a spawned search task and each request
\* of the client ends with a response or an error; the event loop keeps
\* receiving from action_rx (src/app/mod.rs:131-141).
SearchFairness ==
    /\ \A sid \in 1..MaxTaskSearches :
          WF_vars(\E page \in PageInputs : SearchTaskPage(sid, page))
    /\ \A sid \in 1..MaxTaskSearches : WF_vars(HandleSearchResultsPartial(sid))

SpecSearchTask == Init /\ [][NextSearchTask]_vars /\ SearchFairness

\* C40: a search task makes at most 21 requests, the k-th at offset
\* 12 * (k - 1) <= 240; after a failed or short page it makes no further
\* request; when it has ended, the last message it sent has done = true;
\* every running task ends, and while no newer search is started the
\* loading flag of the list is eventually cleared.
C40_SearchTaskTerminates ==
    /\ [](\A sid \in 1..Len(search.tasks) :
            LET t == search.tasks[sid]
            IN /\ t.requests <= 21
               /\ t.requests > 0 =>
                    /\ t.asked = SEARCH_PAGE_SIZE * (t.requests - 1)
                    /\ t.asked <= SEARCH_MAX_OFFSET
               /\ (t.requests > 0 /\ (~t.page.ok \/ t.page.got < SEARCH_PAGE_SIZE))
                    => t.pc = "done"
               /\ t.pc = "done" =>
                    /\ t.out # <<>>
                    /\ t.out[Len(t.out)].done
                    /\ t.out[Len(t.out)].search_id = sid)
    /\ \A sid \in 1..MaxTaskSearches :
          (sid <= Len(search.tasks) /\ search.tasks[sid].pc = "running")
              ~> (sid <= Len(search.tasks) /\ search.tasks[sid].pc = "done")
    /\ \A sid \in 1..MaxTaskSearches :
          (search.id = sid) ~> (search.id # sid \/ ~search.loading)

\* A search got 21 full pages: its task asked last at offset 240, sent
\* five batches of 48, the last 12 with done = true and an empty final
\* message, and all seven were handled: the list holds 252 episodes in six
\* entries and is no longer loading.
C40_Witness ==
    /\ search.id = 1
    /\ search.tasks[1].pc = "done"
    /\ search.tasks[1].requests = 21
    /\ search.tasks[1].asked = 240
    /\ Len(search.tasks[1].out) = 7
    /\ search.tasks[1].out[6] = SearchResultsPartial(1, 12, TRUE)
    /\ search.tasks[1].out[7] = SearchResultsPartial(1, 0, TRUE)
    /\ search.tasks[1].seen = 7
    /\ Len(discovery_items) = 6
    /\ ~search.loading
----------------------------------------------------------------------------
(* A session: the App's event loop drives the MpvPlayer itself.  A handler *)
(* runs to its end before the next action is taken from the channel        *)
(* (app/mod.rs run loop), so a handler that awaits play() or stop() spans   *)
(* the supervisor's steps, while exit monitors, mpv processes and metadata *)
(* observers run in between.  The events of the player's tasks are handled *)
(* in the order they were sent; the user's actions may be sent at any time *)
(* and so are merged anywhere among them.  Spawns succeed here.            *)

\* Most players the user's actions start (the App's own reaction to a
\* player event is never held back), and the longest queue the user builds.
MaxSessionPlays == 2

MaxSessionLen == 3

\* The process behind the shared handle, if it still runs.
Held == IF IsSome(child) /\ Alive(Unwrap(child)) THEN {Unwrap(child)} ELSE {}

\* Events of the player's tasks not handled yet.  PlaybackLoading only
\* updates the play controls (actions.rs:189-191) and is passed over.
PendingEvents ==
    {i \in (sess.seen + 1)..Len(emitted) : emitted[i][1] # "PlaybackLoading"}

NextEvent == CHOOSE i \in PendingEvents : \A j \in PendingEvents : i <= j

\* handle_action for Action a ended in App state st after calling play()
\* (st.played) or stop(); the call is left to the supervisor's steps.  n is
\* the number of player events taken so far (it grows when the action is
\* one of them).  The session remembers the running processes a play()
\* called for the user replaced, and the one a Stop was handled for while
\* no play() followed.
SessionHandled(st, n, stop) ==
    /\ sup.pc = "idle"
    /\ (IsSome(st.played) /\ n = sess.seen) => Len(procs) < MaxSessionPlays
    /\ queue' = st.queue
    /\ np_current' = st.np_current
    /\ controls' = st.controls
    /\ sup' = IF IsSome(st.played)
              THEN [pc |-> "quit", call |-> "play", url |-> Unwrap(st.played),
                    result |-> "none"]
              ELSE IF stop
                   THEN [pc |-> "quit", call |-> "stop", url |-> "", result |-> "none"]
                   ELSE sup
    /\ emitted' = IF IsSome(st.played)
                  THEN Append(emitted, <<"PlaybackLoading">>)
                  ELSE emitted
    /\ sess' = [sess EXCEPT
                    !.seen = n,
                    !.replaced = IF IsSome(st.played) /\ n = sess.seen
                                 THEN @ \cup Held ELSE @,
                    !.stopped = IF IsSome(st.played) THEN {}
                                ELSE IF stop THEN Held ELSE @]
    /\ UNCHANGED <<last, playing, handled, sent, discovery_items,
                   child, lock, procs, sock, mon, ipcVars, search>>

\* Action::PlayItem(item) sent by the user, who starts with an empty queue
SessionPlayItem(item) ==
    /\ queue.items = <<>>
    /\ SessionHandled(App_play_item(AppState, item, TRUE), sess.seen, FALSE)

\* Action::AddToQueue(item) sent by the user
SessionAddToQueue(item) ==
    /\ Len(queue.items) < MaxSessionLen
    /\ SessionHandled(App_enqueue(AppState, item, FALSE), sess.seen, FALSE)

\* Action::NextTrack sent by the user
SessionNextTrack ==
    SessionHandled(App_play_queue_track(AppState, TRUE, TRUE), sess.seen, FALSE)

\* Action::Stop sent by the user while a player is held (actions.rs:30-34)
SessionStop ==
    /\ IsSome(child)
    /\ SessionHandled(AppState, sess.seen, TRUE)

\* Action::PlaybackFinished sent by an exit monitor (actions.rs:199-205)
SessionPlaybackFinished ==
    /\ PendingEvents # {}
    /\ emitted[NextEvent][1] = "PlaybackFinished"
    /\ SessionHandled(App_play_queue_track([AppState EXCEPT !.np_current = None],
                                           TRUE, TRUE),
                      NextEvent, FALSE)

\* Action::StreamMetadataChanged(metadata) sent by a metadata observer
\* (actions.rs:192-198)
SessionStreamMetadataChanged ==
    /\ PendingEvents # {}
    /\ emitted[NextEvent][1] = "StreamMetadataChanged"
    /\ SessionHandled([AppState EXCEPT !.queue =
                           Queue_set_current_stream_metadata(queue, Meta1)],
                      NextEvent, FALSE)

\* The metadata observer connected to process p reads a property change
\* that leaves its metadata non-empty and sends StreamMetadataChanged
\* (ipc.rs:162-166); the event is recorded with the process it came from.
ObserverReports(p) ==
    /\ Alive(p)
    /\ procs[p].bound
    /\ sess.observed = {}
    /\ emitted' = Append(emitted, <<"StreamMetadataChanged", p>>)
    /\ sess' = [sess EXCEPT !.observed = @ \cup {p}]
    /\ UNCHANGED <<child, lock, procs, sock, sup, mon, queueVars, appVars,
                   ipcVars, controls, search>>

\* The streams of a session do not end on their own: a process exits when
\* it was told to quit, or is killed.
NextSession ==
    \/ SessionPlayItem(Episode1)
    \/ SessionAddToQueue(Episode2)
    \/ SessionNextTrack
    \/ SessionStop
    \/ SessionPlaybackFinished
    \/ SessionStreamMetadataChanged
    \/ StopQuit
    \/ StopUnlink
    \/ StopLock
    \/ StopKill
    \/ PlayUnlinkStale
    \/ PlaySpawn(TRUE)
    \/ PlayStoreLock
    \/ PlayStore
    \/ PlaySpawnMonitors
    \/ \E m \in Pids : MonLock(m)
    \/ \E m \in Pids : MonCheck(m)
    \/ \E p \in Pids : ProcBind(p)
    \/ \E p \in Pids : procs[p].state = "quitting" /\ ProcExit(p)
    \/ \E p \in Pids : ObserverReports(p)

SpecSession == Init /\ [][NextSession]_vars

\* The step handles the event of the given kind that came from process p.
SessionEventStep(kind, p) ==
    /\ sess'.seen # sess.seen
    /\ emitted[sess'.seen] = <<kind, p>>

\* C34: a user-initiated NextTrack, PrevTrack or PlayItem moves the cursor
\* once: handling the PlaybackFinished of a process that such a play()
\* replaced, and that ended by the quit of stop(), leaves the cursor where
\* the user put it.
C34_ReplacedFinishedKeepsCursor ==
    [][\A p \in Pids :
          (/\ SessionEventStep("PlaybackFinished", p)
           /\ p \in sess.replaced
           /\ procs[p].state = "quit_exited")
          => queue'.current_index = queue.current_index]_vars

\* C35: once Stop was handled and no play() was called since, no
\* PlaybackFinished of the stopped process is handled by the App.
C35_NoFinishedAfterStop ==
    [][\A p \in Pids :
          ~(/\ SessionEventStep("PlaybackFinished", p)
            /\ p \in sess.stopped
            /\ procs[p].state = "quit_exited")]_vars

\* C36: handling the StreamMetadataChanged of process p changes the stream
\* metadata of no queue item other than one with the URL p plays.
C36_MetadataOnObservedItem ==
    [][\A p \in Pids :
          SessionEventStep("StreamMetadataChanged", p)
          => \A i \in 1..Len(queue.items) :
                queue'.items[i].stream_metadata # queue.items[i].stream_metadata
                => queue.items[i].url = procs[p].url]_vars


====
